---- MODULE Spec2Model ----
(***************************************************************************)
(* Transport gateway of mcp-payloadcms-rs: src/src/server.rs.              *)
(* start_server resolves the enabled transports, spawns one listener task  *)
(* per transport into a JoinSet, joins them and writes the runtime info.   *)
(***************************************************************************)
EXTENDS Integers, Sequences, FiniteSets, TLC

VARIABLES
    args,          \* CommandArguments handed to start_server
    pid,           \* std::process::id()
    pc,            \* position of start_server: "start" | "joining" | "done"
    result,        \* what start_server returned: "none" | "Ok" | error text
    transports,    \* the resolved TransportState (NoState before resolution)
    endpoints,     \* start_server's local Vec<String> endpoints
    task,          \* per transport: state of its listener task in the JoinSet
    outcome,       \* per transport: what its task returned ("" while running)
    bound,         \* per transport: port of its bound listener (0: not bound)
    doneq,         \* JoinSet: finished tasks in completion order, not yet joined
    runtime_info,  \* content of args.runtime_info_file (NoFile: never written)
    write,         \* write_runtime_info: "none" | "ok" | "failed"
    log,           \* tracing::warn! messages emitted so far
    conns,         \* accepted connections, one spawned task each
    next_handler,  \* number of ToolBoxHandler instances constructed so far
    main,          \* position of the caller: "lib" (start_server called as a
                   \* library function) or a position of main()
    pid_file,      \* content of args.pid_file (NoFile: never written)
    settings_file, \* content of settings.json (NoFile: never written)
    report,        \* the transports line status_report printed ("none": none)
    ws_frames,     \* WebsocketTransport.stream: the items the inner stream yields
    ws_pos,        \* how many of these items poll_next has taken so far
    ws_rx,         \* envelopes poll_next has yielded so far
    ws_tx,         \* frames start_send has written to the inner sink
    ws_send,       \* the last start_send call: its item and what it returned
    connection_string,  \* argument of create_payload_client, as characters
    api_key,       \* argument of create_payload_client
    client,        \* the PayloadClient it returned (NoClient: not called yet)
    stdio_streams, \* how many times the stdio task has served stdin/stdout
    dir,           \* the storage directory: file name -> inode (0: no such file)
    inode,         \* content of every inode created so far, as blocks
    saver,         \* the calls of Storage::save / save_snapshot_async
    data,          \* Storage.data: the StorageData in memory (goals, plans)
    clock,         \* Utc::now()
    next_ulid,     \* how many ids Ulid::new() has generated
    call,          \* the last Storage call: its operation, arguments, result
    loaded,        \* main: what load_settings returned
    overrides,     \* main: the CommandArguments parsed from the command line
    effective      \* main: the settings after overlay_args (NoSettings before)

mainvars == <<main, pid_file, settings_file, report>>
wsvars == <<ws_frames, ws_pos, ws_rx>>
sinkvars == <<ws_tx, ws_send>>
clientvars == <<connection_string, api_key, client>>
filevars == <<dir, inode, saver>>
storevars == <<data, clock, next_ulid, call>>
settingsvars == <<loaded, overrides, effective>>
extvars == <<stdio_streams, filevars, storevars, settingsvars>>

vars == <<args, pid, pc, result, transports, endpoints, task, outcome, bound,
          doneq, runtime_info, write, log, conns, next_handler,
          mainvars, wsvars, sinkvars, clientvars, extvars>>

-----------------------------------------------------------------------------
(* Bounds *)

MaxConns == 2
MaxReqs == 2
MaxFrames == 3
MaxSlashes == 2
MaxSavers == 2
MaxUlids == 3
MaxClock == 1
MaxLoaded == 1
MaxOverridden == 2

-----------------------------------------------------------------------------
(* Values *)

Kinds == {"stdio", "tcp", "unix", "http", "sse", "ws"}
AcceptKinds == {"tcp", "unix", "http", "ws"}

AddrStrings == {"127.0.0.1:0", "localhost"}
UnixPaths == {"/tmp/mcp-server.sock"}
Pids == {4242}
EphemeralPorts == {49152}

None == [some |-> FALSE]
Some(x) == [some |-> TRUE, val |-> x]
NoState == [resolved |-> FALSE]
NoFile == [written |-> FALSE]
NoClient == [created |-> FALSE]
NoSend == [res |-> "none"]

\* str::parse::<SocketAddr>: an IP literal, a colon and a port; anything else fails
AddrTable == [s \in {"127.0.0.1:0"} |-> [host |-> "127.0.0.1", port |-> 0]]

ParseAddr(s) ==
    IF s \in DOMAIN AddrTable THEN [ok |-> TRUE, addr |-> AddrTable[s]]
    ELSE [ok |-> FALSE]

\* Display for SocketAddr
AddrToString(a) == a.host \o ":" \o ToString(a.port)

ArgsSet ==
    [enable_stdio : BOOLEAN, enable_tcp : BOOLEAN, enable_unix : BOOLEAN,
     enable_http : BOOLEAN, enable_sse : BOOLEAN, enable_ws : BOOLEAN,
     tcp_addr : AddrStrings, http_addr : AddrStrings,
     sse_addr : AddrStrings, ws_addr : AddrStrings,
     unix_path : UnixPaths]

-----------------------------------------------------------------------------
(* TransportState *)

Err(msg) == [ok |-> FALSE, err |-> msg]

\* faulty variant: every address is parsed, whether its transport is enabled or not
from_args_eager(a) ==
    LET tcp  == ParseAddr(a.tcp_addr)
        http == ParseAddr(a.http_addr)
        sse  == ParseAddr(a.sse_addr)
        ws   == ParseAddr(a.ws_addr)
    IN  IF ~tcp.ok THEN Err("Invalid MCP_TCP_ADDR")
        ELSE IF ~http.ok THEN Err("Invalid MCP_HTTP_ADDR")
        ELSE IF ~sse.ok THEN Err("Invalid MCP_SSE_ADDR")
        ELSE IF ~ws.ok THEN Err("Invalid MCP_WS_ADDR")
        ELSE [ok |-> TRUE,
              state |-> [resolved |-> TRUE,
                         stdio |-> a.enable_stdio,
                         tcp |-> IF a.enable_tcp THEN Some(tcp.addr) ELSE None,
                         unix_path |-> IF a.enable_unix THEN Some(a.unix_path) ELSE None,
                         http |-> IF a.enable_http THEN Some(http.addr) ELSE None,
                         sse |-> IF a.enable_sse THEN Some(sse.addr) ELSE None,
                         ws |-> IF a.enable_ws THEN Some(ws.addr) ELSE None]]

\* faulty variant: the ws address is checked first
from_args_ws_first(a) ==
    LET tcp  == ParseAddr(a.tcp_addr)
        http == ParseAddr(a.http_addr)
        sse  == ParseAddr(a.sse_addr)
        ws   == ParseAddr(a.ws_addr)
    IN  IF a.enable_ws /\ ~ws.ok THEN Err("Invalid MCP_WS_ADDR")
        ELSE IF a.enable_tcp /\ ~tcp.ok THEN Err("Invalid MCP_TCP_ADDR")
        ELSE IF a.enable_http /\ ~http.ok THEN Err("Invalid MCP_HTTP_ADDR")
        ELSE IF a.enable_sse /\ ~sse.ok THEN Err("Invalid MCP_SSE_ADDR")
        ELSE [ok |-> TRUE,
              state |-> [resolved |-> TRUE,
                         stdio |-> a.enable_stdio,
                         tcp |-> IF a.enable_tcp THEN Some(tcp.addr) ELSE None,
                         unix_path |-> IF a.enable_unix THEN Some(a.unix_path) ELSE None,
                         http |-> IF a.enable_http THEN Some(http.addr) ELSE None,
                         sse |-> IF a.enable_sse THEN Some(sse.addr) ELSE None,
                         ws |-> IF a.enable_ws THEN Some(ws.addr) ELSE None]]

\* faulty variant: one message for every address field
from_args_generic_msg(a) ==
    LET tcp  == ParseAddr(a.tcp_addr)
        http == ParseAddr(a.http_addr)
        sse  == ParseAddr(a.sse_addr)
        ws   == ParseAddr(a.ws_addr)
    IN  IF a.enable_tcp /\ ~tcp.ok THEN Err("Invalid address")
        ELSE IF a.enable_http /\ ~http.ok THEN Err("Invalid address")
        ELSE IF a.enable_sse /\ ~sse.ok THEN Err("Invalid address")
        ELSE IF a.enable_ws /\ ~ws.ok THEN Err("Invalid address")
        ELSE [ok |-> TRUE,
              state |-> [resolved |-> TRUE,
                         stdio |-> a.enable_stdio,
                         tcp |-> IF a.enable_tcp THEN Some(tcp.addr) ELSE None,
                         unix_path |-> IF a.enable_unix THEN Some(a.unix_path) ELSE None,
                         http |-> IF a.enable_http THEN Some(http.addr) ELSE None,
                         sse |-> IF a.enable_sse THEN Some(sse.addr) ELSE None,
                         ws |-> IF a.enable_ws THEN Some(ws.addr) ELSE None]]

from_args(a) ==
    LET tcp  == ParseAddr(a.tcp_addr)
        http == ParseAddr(a.http_addr)
        sse  == ParseAddr(a.sse_addr)
        ws   == ParseAddr(a.ws_addr)
    IN  IF a.enable_tcp /\ ~tcp.ok THEN Err("Invalid MCP_TCP_ADDR")
        ELSE IF a.enable_http /\ ~http.ok THEN Err("Invalid MCP_HTTP_ADDR")
        ELSE IF a.enable_sse /\ ~sse.ok THEN Err("Invalid MCP_SSE_ADDR")
        ELSE IF a.enable_ws /\ ~ws.ok THEN Err("Invalid MCP_WS_ADDR")
        ELSE [ok |-> TRUE,
              state |-> [resolved |-> TRUE,
                         stdio |-> a.enable_stdio,
                         tcp |-> IF a.enable_tcp THEN Some(tcp.addr) ELSE None,
                         unix_path |-> IF a.enable_unix THEN Some(a.unix_path) ELSE None,
                         http |-> IF a.enable_http THEN Some(http.addr) ELSE None,
                         sse |-> IF a.enable_sse THEN Some(sse.addr) ELSE None,
                         ws |-> IF a.enable_ws THEN Some(ws.addr) ELSE None]]

\* faulty variant: the websocket transport is forgotten
any_enabled_no_ws(t) ==
    \/ t.stdio
    \/ t.tcp.some
    \/ t.unix_path.some
    \/ t.http.some
    \/ t.sse.some

any_enabled(t) ==
    \/ t.stdio
    \/ t.tcp.some
    \/ t.unix_path.some
    \/ t.http.some
    \/ t.sse.some
    \/ t.ws.some

\* faulty variant: the descriptor of ws is listed before the one of sse
active_endpoints_ws_first(t) ==
    (IF t.stdio THEN <<"stdio">> ELSE <<>>)
    \o (IF t.tcp.some THEN <<"tcp@" \o AddrToString(t.tcp.val)>> ELSE <<>>)
    \o (IF t.unix_path.some THEN <<"unix@" \o t.unix_path.val>> ELSE <<>>)
    \o (IF t.http.some
        THEN <<"http+streamable-sse@" \o AddrToString(t.http.val)>> ELSE <<>>)
    \o (IF t.ws.some THEN <<"ws@" \o AddrToString(t.ws.val)>> ELSE <<>>)
    \o (IF t.sse.some THEN <<"sse@" \o AddrToString(t.sse.val)>> ELSE <<>>)

active_endpoints(t) ==
    (IF t.stdio THEN <<"stdio">> ELSE <<>>)
    \o (IF t.tcp.some THEN <<"tcp@" \o AddrToString(t.tcp.val)>> ELSE <<>>)
    \o (IF t.unix_path.some THEN <<"unix@" \o t.unix_path.val>> ELSE <<>>)
    \o (IF t.http.some
        THEN <<"http+streamable-sse@" \o AddrToString(t.http.val)>> ELSE <<>>)
    \o (IF t.sse.some THEN <<"sse@" \o AddrToString(t.sse.val)>> ELSE <<>>)
    \o (IF t.ws.some THEN <<"ws@" \o AddrToString(t.ws.val)>> ELSE <<>>)

\* the transports of a TransportState that get a listener task
\* faulty variant: the TCP listener is spawned whatever its flag says
EnabledAlwaysTcp(t) ==
    {k \in Kinds :
        \/ k = "stdio" /\ t.stdio
        \/ k = "tcp"
        \/ k = "unix" /\ t.unix_path.some
        \/ k = "http" /\ t.http.some
        \/ k = "sse" /\ t.sse.some
        \/ k = "ws" /\ t.ws.some}

Enabled(t) ==
    {k \in Kinds :
        \/ k = "stdio" /\ t.stdio
        \/ k = "tcp" /\ t.tcp.some
        \/ k = "unix" /\ t.unix_path.some
        \/ k = "http" /\ t.http.some
        \/ k = "sse" /\ t.sse.some
        \/ k = "ws" /\ t.ws.some}

\* the configured bind address of a network transport
ConfigAddr(t, k) ==
    CASE k = "tcp" -> t.tcp.val
      [] k = "http" -> t.http.val
      [] k = "sse" -> t.sse.val
      [] k = "ws" -> t.ws.val

\* placeholder: the descriptor is dropped, the endpoints stay as they are
endpoints_lock_push(eps, ep) == eps

\* listener.local_addr(): port 0 is resolved to the port the OS assigned
local_addr(cfg, port) == [host |-> cfg.host, port |-> port]

NoTransportsEnabled ==
    "No transports enabled; toggle MCP_ENABLE_* env vars or CLI flags"

-----------------------------------------------------------------------------
(* Storage files, storage.rs *)

Savers == 1..MaxSavers
FileNames == {"data.json", "data.tmp"}

\* no storage file exists and no save is running
FilesIdle ==
    /\ dir = [n \in FileNames |-> 0]
    /\ inode = <<>>
    /\ saver = [p \in Savers |-> [pc |-> "idle"]]

-----------------------------------------------------------------------------
(* Storage data in memory, storage.rs *)

NoCall == [op |-> "none", res |-> "none"]

\* Storage::new: StorageData::default()
StorageIdle ==
    /\ data = [goals |-> <<>>, plans |-> <<>>]
    /\ clock = 0
    /\ next_ulid = 0
    /\ call = NoCall

-----------------------------------------------------------------------------
(* Settings, cli.rs lines 33-119 and main.rs lines 130-284 *)

Fields ==
    {"server_name", "server_description", "enable_stdio", "enable_tcp",
     "enable_unix", "enable_http", "enable_sse", "enable_ws", "tcp_addr",
     "http_addr", "sse_addr", "ws_addr", "unix_path", "pid_file",
     "runtime_info_file", "foreground"}

\* CommandArguments::default_settings, cli.rs lines 100-119
default_settings ==
    [server_name |-> "PKG_NAME", server_description |-> "PKG_DESCRIPTION",
     enable_stdio |-> TRUE, enable_tcp |-> FALSE, enable_unix |-> FALSE,
     enable_http |-> TRUE, enable_sse |-> TRUE, enable_ws |-> FALSE,
     tcp_addr |-> "127.0.0.1:0", http_addr |-> "0.0.0.0:0",
     sse_addr |-> "0.0.0.0:0", ws_addr |-> "0.0.0.0:0",
     unix_path |-> "/tmp/mcp-server.sock",
     pid_file |-> "/tmp/mcp-server-template-rs.pid",
     runtime_info_file |-> "/tmp/mcp-server-template-rs.runtime.json",
     foreground |-> FALSE]

NoSettings == [applied |-> FALSE]

\* main has not loaded or overlaid anything
SettingsIdle ==
    /\ loaded = default_settings
    /\ overrides = default_settings
    /\ effective = NoSettings

-----------------------------------------------------------------------------
(* start_server *)

FreeConn == [kind |-> "none", st |-> "free", handler |-> 0,
             sent |-> 0, inbox |-> <<>>, outbox |-> <<>>]

Init ==
    /\ args \in ArgsSet
    /\ pid \in Pids
    /\ pc = "start"
    /\ result = "none"
    /\ transports = NoState
    /\ endpoints = <<>>
    /\ task = [k \in Kinds |-> "none"]
    /\ outcome = [k \in Kinds |-> ""]
    /\ bound = [k \in Kinds |-> 0]
    /\ doneq = <<>>
    /\ runtime_info = NoFile
    /\ write = "none"
    /\ log = {}
    /\ conns = [c \in 1..MaxConns |-> FreeConn]
    /\ next_handler = 0
    /\ main = "lib"
    /\ pid_file = NoFile
    /\ settings_file = NoFile
    /\ report = "none"
    /\ ws_frames = <<>>
    /\ ws_pos = 0
    /\ ws_rx = <<>>
    /\ ws_tx = <<>>
    /\ ws_send = NoSend
    /\ connection_string = <<>>
    /\ api_key = None
    /\ client = NoClient
    /\ stdio_streams = 0
    /\ FilesIdle
    /\ StorageIdle
    /\ SettingsIdle

\* faulty variant: the runtime info is written on this return path too
StartServerConfigErrorWrites ==
    /\ pc = "start"
    /\ LET r == from_args(args)
       IN  /\ \/ ~r.ok
              \/ r.ok /\ ~any_enabled(r.state)
           /\ result' = IF ~r.ok THEN r.err ELSE NoTransportsEnabled
    /\ pc' = "done"
    /\ runtime_info' = [written |-> TRUE, pid |-> pid, endpoints |-> endpoints]
    /\ write' = "ok"
    /\ UNCHANGED <<args, pid, transports, endpoints, task, outcome, bound,
                   doneq, log, conns, next_handler>>
    /\ UNCHANGED <<mainvars, wsvars, sinkvars, clientvars, extvars>>

\* from_args or any_enabled fails: start_server returns before spawning
StartServerConfigError ==
    /\ pc = "start"
    /\ LET r == from_args(args)
       IN  /\ \/ ~r.ok
              \/ r.ok /\ ~any_enabled(r.state)
           /\ result' = IF ~r.ok THEN r.err ELSE NoTransportsEnabled
    /\ pc' = "done"
    /\ UNCHANGED <<args, pid, transports, endpoints, task, outcome, bound,
                   doneq, runtime_info, write, log, conns, next_handler>>
    /\ UNCHANGED <<mainvars, wsvars, sinkvars, clientvars, extvars>>

\* lines 189-412: resolve, collect the endpoints, spawn one task per transport
StartServerSpawn ==
    /\ pc = "start"
    /\ LET r == from_args(args)
       IN  /\ r.ok
           /\ any_enabled(r.state)
           /\ transports' = r.state
           /\ endpoints' = active_endpoints(r.state)
                             \o (IF r.state.stdio THEN <<"stdio">> ELSE <<>>)
           /\ task' = [k \in Kinds |->
                          IF k \in Enabled(r.state) THEN "spawned" ELSE "none"]
    /\ pc' = "joining"
    /\ UNCHANGED <<args, pid, result, outcome, bound, doneq, runtime_info,
                   write, log, conns, next_handler>>
    /\ UNCHANGED <<mainvars, wsvars, sinkvars, clientvars, extvars>>

-----------------------------------------------------------------------------
(* Listener tasks *)

Prefix(k) ==
    CASE k = "tcp" -> "TCP"
      [] k = "unix" -> "Unix"
      [] k = "http" -> "Streamable HTTP"
      [] k = "ws" -> "Websocket"

\* the descriptor a listener hands to endpoints_lock_push once it is bound
BoundDescriptor(k, actual) ==
    CASE k = "tcp" -> "tcp@" \o AddrToString(actual)
      [] k = "http" -> "streamable-http@" \o AddrToString(actual)
      [] k = "ws" -> "ws@" \o AddrToString(actual)

\* the port the OS gives a listener bound to cfg
BoundPorts(cfg) == IF cfg.port = 0 THEN EphemeralPorts ELSE {cfg.port}

\* a task returns r: the JoinSet queues it for join_next
Finish(k, r) ==
    /\ task' = [task EXCEPT ![k] = "done"]
    /\ outcome' = [outcome EXCEPT ![k] = r]
    /\ doneq' = Append(doneq, k)

\* make_service: a new Router over a new ToolBoxHandler; it never fails
make_service(n) == [ok |-> TRUE, handler |-> n + 1]

\* faulty variant: when the stream ends with Ok the task serves stdin/stdout
\* again instead of returning
StdioServeAgain ==
    /\ pc = "joining"
    /\ task["stdio"] = "spawned"
    /\ next_handler' = make_service(next_handler).handler
    /\ stdio_streams' = stdio_streams + 1
    /\ UNCHANGED <<filevars, storevars, settingsvars>>
    /\ \/ UNCHANGED <<task, outcome, doneq>>
       \/ Finish("stdio", "Stdio error")
    /\ UNCHANGED <<args, pid, pc, result, transports, endpoints, bound,
                   runtime_info, write, log, conns>>
    /\ UNCHANGED <<mainvars, wsvars, sinkvars, clientvars>>

\* lines 211-220: the stdio task builds its service, serves and returns
StdioServe ==
    /\ pc = "joining"
    /\ task["stdio"] = "spawned"
    /\ next_handler' = make_service(next_handler).handler
    /\ stdio_streams' = stdio_streams + 1
    /\ UNCHANGED <<filevars, storevars, settingsvars>>
    /\ \E ok \in BOOLEAN : Finish("stdio", IF ok THEN "Ok" ELSE "Stdio error")
    /\ UNCHANGED <<args, pid, pc, result, transports, endpoints, bound,
                   runtime_info, write, log, conns>>
    /\ UNCHANGED <<mainvars, wsvars, sinkvars, clientvars>>

\* TcpListener::bind / UnixListener::bind succeeds
BindOk(k) ==
    /\ pc = "joining"
    /\ task[k] = "spawned"
    /\ task' = [task EXCEPT ![k] = "listening"]
    /\ IF k = "unix"
       THEN UNCHANGED <<bound, endpoints>>
       ELSE \E p \in BoundPorts(ConfigAddr(transports, k)) :
               /\ bound' = [bound EXCEPT ![k] = p]
               /\ endpoints' = endpoints_lock_push(endpoints,
                      BoundDescriptor(k, local_addr(ConfigAddr(transports, k), p)))
    /\ UNCHANGED <<args, pid, pc, result, transports, outcome, doneq,
                   runtime_info, write, log, conns, next_handler>>
    /\ UNCHANGED <<mainvars, wsvars, sinkvars, clientvars, extvars>>

\* the bind fails: the task returns the error
BindErr(k) ==
    /\ pc = "joining"
    /\ task[k] = "spawned"
    /\ Finish(k, Prefix(k) \o " bind error")
    /\ UNCHANGED <<args, pid, pc, result, transports, endpoints, bound,
                   runtime_info, write, log, conns, next_handler>>
    /\ UNCHANGED <<mainvars, wsvars, sinkvars, clientvars, extvars>>

\* lines 346-365: SseServer::serve_with_config, with_service_directly, Ok(())
SseSetup ==
    /\ pc = "joining"
    /\ task["sse"] = "spawned"
    /\ \/ /\ \E p \in BoundPorts(ConfigAddr(transports, "sse")) :
                bound' = [bound EXCEPT !["sse"] = p]
          /\ Finish("sse", "Ok")
       \/ /\ Finish("sse", "SSE server setup error")
          /\ UNCHANGED bound
    /\ UNCHANGED <<args, pid, pc, result, transports, endpoints,
                   runtime_info, write, log, conns, next_handler>>
    /\ UNCHANGED <<mainvars, wsvars, sinkvars, clientvars, extvars>>

FreeSlots == {c \in 1..MaxConns : conns[c].st = "free"}

\* the listener of k is accepting
Accepting(k) == task[k] = "listening"

\* listener.accept() succeeds: a task is spawned for the connection, and the
\* loop goes on
\* faulty variant: the loop serves the connection itself and accepts again
\* only when the connections it accepted before have ended
AcceptOkInline(k) ==
    /\ pc = "joining"
    /\ Accepting(k)
    /\ FreeSlots # {}
    /\ \A d \in 1..MaxConns : conns[d].kind = k => conns[d].st = "closed"
    /\ LET c == CHOOSE x \in FreeSlots : \A y \in FreeSlots : x <= y
       IN  conns' = [conns EXCEPT ![c] = [FreeConn EXCEPT !.kind = k,
                                                           !.st = "accepted"]]
    /\ UNCHANGED <<args, pid, pc, result, transports, endpoints, task, outcome,
                   bound, doneq, runtime_info, write, log, next_handler>>
    /\ UNCHANGED <<mainvars, wsvars, sinkvars, clientvars, extvars>>

AcceptOk(k) ==
    /\ pc = "joining"
    /\ Accepting(k)
    /\ FreeSlots # {}
    /\ LET c == CHOOSE x \in FreeSlots : \A y \in FreeSlots : x <= y
       IN  conns' = [conns EXCEPT ![c] = [FreeConn EXCEPT !.kind = k,
                                                           !.st = "accepted"]]
    /\ UNCHANGED <<args, pid, pc, result, transports, endpoints, task, outcome,
                   bound, doneq, runtime_info, write, log, next_handler>>
    /\ UNCHANGED <<mainvars, wsvars, sinkvars, clientvars, extvars>>

\* faulty variant: only tcp and unix end on a failed accept
AcceptErrSocketsOnly(k) ==
    /\ pc = "joining"
    /\ task[k] = "listening"
    /\ IF k \in {"tcp", "unix"}
       THEN Finish(k, Prefix(k) \o " accept error") /\ UNCHANGED log
       ELSE /\ log' = log \cup {Prefix(k) \o " accept error"}
            /\ UNCHANGED <<task, outcome, doneq>>
    /\ UNCHANGED <<args, pid, pc, result, transports, endpoints, bound,
                   runtime_info, write, conns, next_handler>>
    /\ UNCHANGED <<mainvars, wsvars, sinkvars, clientvars, extvars>>

\* faulty variant: the accept error is logged and the loop goes on
AcceptErrContinue(k) ==
    /\ pc = "joining"
    /\ task[k] = "listening"
    /\ log' = log \cup {Prefix(k) \o " accept error"}
    /\ UNCHANGED <<args, pid, pc, result, transports, endpoints, task, outcome,
                   bound, doneq, runtime_info, write, conns, next_handler>>
    /\ UNCHANGED <<mainvars, wsvars, sinkvars, clientvars, extvars>>

\* listener.accept() fails: `?` leaves the loop and the task returns the error
AcceptErr(k) ==
    /\ pc = "joining"
    /\ task[k] = "listening"
    /\ Finish(k, Prefix(k) \o " accept error")
    /\ UNCHANGED <<args, pid, pc, result, transports, endpoints, bound,
                   runtime_info, write, log, conns, next_handler>>
    /\ UNCHANGED <<mainvars, wsvars, sinkvars, clientvars, extvars>>

-----------------------------------------------------------------------------
(* Connection tasks *)

\* faulty variant: every service writes to one shared stream
ServeTargetShared(c) == 1

\* the connection a service writes its responses to: the stream it serves
ServeTarget(c) == c

\* the spawned task of a tcp, unix or http connection builds its service
ConnStart(c) ==
    /\ pc = "joining"
    /\ conns[c].st = "accepted"
    /\ conns[c].kind # "ws"
    /\ LET m == make_service(next_handler)
       IN  /\ next_handler' = m.handler
           /\ conns' = [conns EXCEPT ![c].st = "serving",
                                     ![c].handler = m.handler]
    /\ UNCHANGED <<args, pid, pc, result, transports, endpoints, task, outcome,
                   bound, doneq, runtime_info, write, log>>
    /\ UNCHANGED <<mainvars, wsvars, sinkvars, clientvars, extvars>>

\* faulty variant: the handshake error is returned by the listener task
WsHandshakeFatal(c) ==
    /\ pc = "joining"
    /\ conns[c].st = "accepted"
    /\ conns[c].kind = "ws"
    /\ \/ LET m == make_service(next_handler)
          IN  /\ next_handler' = m.handler
              /\ conns' = [conns EXCEPT ![c].st = "serving",
                                        ![c].handler = m.handler]
              /\ UNCHANGED <<log, task, outcome, doneq>>
       \/ /\ conns' = [conns EXCEPT ![c].st = "closed"]
          /\ log' = log \cup {"Websocket handshake error"}
          /\ IF task["ws"] = "listening"
             THEN Finish("ws", "Websocket handshake error")
             ELSE UNCHANGED <<task, outcome, doneq>>
          /\ UNCHANGED next_handler
    /\ UNCHANGED <<args, pid, pc, result, transports, endpoints,
                   bound, runtime_info, write>>
    /\ UNCHANGED <<mainvars, wsvars, sinkvars, clientvars, extvars>>

\* lines 386-409: tokio_tungstenite::accept_async in the connection's task
WsHandshake(c) ==
    /\ pc = "joining"
    /\ conns[c].st = "accepted"
    /\ conns[c].kind = "ws"
    /\ \/ LET m == make_service(next_handler)
          IN  /\ next_handler' = m.handler
              /\ conns' = [conns EXCEPT ![c].st = "serving",
                                        ![c].handler = m.handler]
              /\ UNCHANGED log
       \/ /\ conns' = [conns EXCEPT ![c].st = "closed"]
          /\ log' = log \cup {"Websocket handshake error"}
          /\ UNCHANGED next_handler
    /\ UNCHANGED <<args, pid, pc, result, transports, endpoints, task, outcome,
                   bound, doneq, runtime_info, write>>
    /\ UNCHANGED <<mainvars, wsvars, sinkvars, clientvars, extvars>>

\* the peer of connection c sends its next request; each peer numbers its
\* requests from 1, so two connections use the same ids
ClientSend(c) ==
    /\ pc = "joining"
    /\ conns[c].st = "serving"
    /\ conns[c].sent < MaxReqs
    /\ conns' = [conns EXCEPT
                   ![c].sent = @ + 1,
                   ![c].inbox = Append(@, [id |-> conns[c].sent + 1,
                                           origin |-> c])]
    /\ UNCHANGED <<args, pid, pc, result, transports, endpoints, task, outcome,
                   bound, doneq, runtime_info, write, log, next_handler>>
    /\ UNCHANGED <<mainvars, wsvars, sinkvars, clientvars, extvars>>

\* faulty variant: the service answers the request it received last
HandleRequestNewestFirst(c) ==
    /\ pc = "joining"
    /\ conns[c].st = "serving"
    /\ conns[c].inbox # <<>>
    /\ LET n == Len(conns[c].inbox)
           req == conns[c].inbox[n]
           rsp == [id |-> req.id, origin |-> req.origin,
                   handler |-> conns[c].handler]
           popped == [conns EXCEPT ![c].inbox = SubSeq(@, 1, n - 1)]
       IN  conns' = [popped EXCEPT ![ServeTarget(c)].outbox = Append(@, rsp)]
    /\ UNCHANGED <<args, pid, pc, result, transports, endpoints, task, outcome,
                   bound, doneq, runtime_info, write, log, next_handler>>
    /\ UNCHANGED <<mainvars, wsvars, sinkvars, clientvars, extvars>>

\* router.serve(stream): the connection's service answers the next request
HandleRequest(c) ==
    /\ pc = "joining"
    /\ conns[c].st = "serving"
    /\ conns[c].inbox # <<>>
    /\ LET req == Head(conns[c].inbox)
           rsp == [id |-> req.id, origin |-> req.origin,
                   handler |-> conns[c].handler]
           popped == [conns EXCEPT ![c].inbox = Tail(@)]
       IN  conns' = [popped EXCEPT ![ServeTarget(c)].outbox = Append(@, rsp)]
    /\ UNCHANGED <<args, pid, pc, result, transports, endpoints, task, outcome,
                   bound, doneq, runtime_info, write, log, next_handler>>
    /\ UNCHANGED <<mainvars, wsvars, sinkvars, clientvars, extvars>>

\* the task spawned for an accepted streamable-HTTP connection, lines
\* 328-339: hyper serves the connection with a clone of the service
HttpServeConnection(c) ==
    /\ pc = "joining"
    /\ conns[c].st = "accepted"
    /\ conns[c].kind = "http"
    /\ conns' = [conns EXCEPT ![c].st = "serving"]
    /\ UNCHANGED <<args, pid, pc, result, transports, endpoints, task, outcome,
                   bound, doneq, runtime_info, write, log, next_handler>>
    /\ UNCHANGED <<mainvars, wsvars, sinkvars, clientvars, extvars>>

ConnWarning(k) ==
    CASE k = "tcp" -> "TCP connection error"
      [] k = "unix" -> "Unix connection error"
      [] k = "http" -> "Streamable HTTP connection error"
      [] k = "ws" -> "Websocket connection error"

\* serve returns: the stream ended, or it failed and the error is logged
\* faulty variant: the end of one connection closes every served connection
ConnEndAll(c) ==
    /\ pc = "joining"
    /\ conns[c].st = "serving"
    /\ conns' = [d \in 1..MaxConns |->
                   IF conns[d].st = "serving"
                   THEN [conns[d] EXCEPT !.st = "closed"] ELSE conns[d]]
    /\ \/ UNCHANGED log
       \/ log' = log \cup {ConnWarning(conns[c].kind)}
    /\ UNCHANGED <<args, pid, pc, result, transports, endpoints, task, outcome,
                   bound, doneq, runtime_info, write, next_handler>>
    /\ UNCHANGED <<mainvars, wsvars, sinkvars, clientvars, extvars>>

ConnEnd(c) ==
    /\ pc = "joining"
    /\ conns[c].st = "serving"
    /\ conns' = [conns EXCEPT ![c].st = "closed"]
    /\ \/ UNCHANGED log
       \/ log' = log \cup {ConnWarning(conns[c].kind)}
    /\ UNCHANGED <<args, pid, pc, result, transports, endpoints, task, outcome,
                   bound, doneq, runtime_info, write, next_handler>>
    /\ UNCHANGED <<mainvars, wsvars, sinkvars, clientvars, extvars>>

-----------------------------------------------------------------------------
(* Join loop, lines 414-425 *)

\* faulty variant: the task that finished last is joined first
JoinPickLast(q) == q[Len(q)]

\* tasks.join_next(): the task that finished first
JoinPick(q) == Head(q)

JoinNextOk ==
    /\ pc = "joining"
    /\ doneq # <<>>
    /\ LET k == JoinPick(doneq)
       IN  /\ outcome[k] = "Ok"
           /\ task' = [task EXCEPT ![k] = "joined"]
           /\ doneq' = SelectSeq(doneq, LAMBDA j : j # k)
    /\ UNCHANGED <<args, pid, pc, result, transports, endpoints, outcome, bound,
                   runtime_info, write, log, conns, next_handler>>
    /\ UNCHANGED <<mainvars, wsvars, sinkvars, clientvars, extvars>>

\* faulty variant: the other tasks are left running
JoinNextErrDetached ==
    /\ pc = "joining"
    /\ doneq # <<>>
    /\ LET k == JoinPick(doneq)
       IN  /\ outcome[k] # "Ok"
           /\ result' = outcome[k]
           /\ task' = [task EXCEPT ![k] = "joined"]
           /\ doneq' = SelectSeq(doneq, LAMBDA j : j # k)
    /\ pc' = "done"
    /\ UNCHANGED <<args, pid, transports, endpoints, outcome, bound,
                   runtime_info, write, log, conns, next_handler>>
    /\ UNCHANGED <<mainvars, wsvars, sinkvars, clientvars, extvars>>

\* `??` returns the task's error; dropping the JoinSet aborts the other tasks
JoinNextErr ==
    /\ pc = "joining"
    /\ doneq # <<>>
    /\ LET k == JoinPick(doneq)
       IN  /\ outcome[k] # "Ok"
           /\ result' = outcome[k]
           /\ task' = [j \in Kinds |->
                          IF j = k THEN "joined"
                          ELSE IF task[j] \in {"spawned", "listening"}
                               THEN "aborted" ELSE task[j]]
           /\ doneq' = SelectSeq(doneq, LAMBDA j : j # k)
    /\ pc' = "done"
    /\ UNCHANGED <<args, pid, transports, endpoints, outcome, bound,
                   runtime_info, write, log, conns, next_handler>>
    /\ UNCHANGED <<mainvars, wsvars, sinkvars, clientvars, extvars>>

\* fs::write of the serialized RuntimeInfo; its error is discarded
write_runtime_info(info, ok) ==
    IF ok THEN [written |-> TRUE, pid |-> info.pid, endpoints |-> info.endpoints]
    ELSE runtime_info

\* faulty variant: the runtime info is written as soon as one task is joined
JoinFinishEarly ==
    /\ pc = "joining"
    /\ \E k \in Kinds : task[k] = "joined"
    /\ \E ok \in BOOLEAN :
          /\ runtime_info' =
                write_runtime_info([pid |-> pid, endpoints |-> endpoints], ok)
          /\ write' = IF ok THEN "ok" ELSE "failed"
    /\ result' = "Ok"
    /\ pc' = "done"
    /\ UNCHANGED <<args, pid, transports, endpoints, task, outcome, bound,
                   doneq, log, conns, next_handler>>
    /\ UNCHANGED <<mainvars, wsvars, sinkvars, clientvars, extvars>>

\* faulty variant: the error of write_runtime_info is returned
JoinFinishFatalWrite ==
    /\ pc = "joining"
    /\ \A k \in Kinds : task[k] \in {"none", "joined"}
    /\ \E ok \in BOOLEAN :
          /\ runtime_info' =
                write_runtime_info([pid |-> pid, endpoints |-> endpoints], ok)
          /\ write' = IF ok THEN "ok" ELSE "failed"
          /\ result' = IF ok THEN "Ok" ELSE "Write runtime info error"
    /\ pc' = "done"
    /\ UNCHANGED <<args, pid, transports, endpoints, task, outcome, bound,
                   doneq, log, conns, next_handler>>
    /\ UNCHANGED <<mainvars, wsvars, sinkvars, clientvars, extvars>>

\* join_next() returns None: every task was joined; write the runtime info
JoinFinish ==
    /\ pc = "joining"
    /\ \A k \in Kinds : task[k] \in {"none", "joined"}
    /\ \E ok \in BOOLEAN :
          /\ runtime_info' =
                write_runtime_info([pid |-> pid, endpoints |-> endpoints], ok)
          /\ write' = IF ok THEN "ok" ELSE "failed"
    /\ result' = "Ok"
    /\ pc' = "done"
    /\ UNCHANGED <<args, pid, transports, endpoints, task, outcome, bound,
                   doneq, log, conns, next_handler>>
    /\ UNCHANGED <<mainvars, wsvars, sinkvars, clientvars, extvars>>

-----------------------------------------------------------------------------

(* The supervisor: every configuration, the listener tasks and the join *)

Next ==
    \/ StartServerConfigError
    \/ StartServerSpawn
    \/ StdioServe
    \/ \E k \in AcceptKinds : BindOk(k)
    \/ \E k \in AcceptKinds : BindErr(k)
    \/ SseSetup
    \/ \E k \in AcceptKinds : AcceptErr(k)
    \/ JoinNextOk
    \/ JoinNextErr
    \/ JoinFinish

Spec == Init /\ [][Next]_vars

(* The callers of the resolver: main's Start and Status branches, and a    *)
(* direct call of start_server                                              *)

IsBlank(x) == x \in {"", " "}

\* faulty variant: the address of the websocket transport is not checked
validate_skips_ws(a) ==
    IF ~a.enable_stdio /\ ~a.enable_tcp /\ ~a.enable_unix
       /\ ~a.enable_http /\ ~a.enable_sse /\ ~a.enable_ws
    THEN Err("Enable at least one transport (stdio, tcp, unix, http, or sse)")
    ELSE IF a.enable_tcp /\ ~ParseAddr(a.tcp_addr).ok
    THEN Err("Invalid MCP_TCP_ADDR '" \o a.tcp_addr \o "'")
    ELSE IF a.enable_http /\ ~ParseAddr(a.http_addr).ok
    THEN Err("Invalid MCP_HTTP_ADDR '" \o a.http_addr \o "'")
    ELSE IF a.enable_sse /\ ~ParseAddr(a.sse_addr).ok
    THEN Err("Invalid MCP_SSE_ADDR '" \o a.sse_addr \o "'")
    ELSE IF a.enable_unix /\ IsBlank(a.unix_path)
    THEN Err("MCP_UNIX_PATH cannot be empty when unix transport is enabled")
    ELSE [ok |-> TRUE]

\* CommandArguments::validate, cli.rs lines 122-159
validate(a) ==
    IF ~a.enable_stdio /\ ~a.enable_tcp /\ ~a.enable_unix
       /\ ~a.enable_http /\ ~a.enable_sse /\ ~a.enable_ws
    THEN Err("Enable at least one transport (stdio, tcp, unix, http, or sse)")
    ELSE IF a.enable_tcp /\ ~ParseAddr(a.tcp_addr).ok
    THEN Err("Invalid MCP_TCP_ADDR '" \o a.tcp_addr \o "'")
    ELSE IF a.enable_http /\ ~ParseAddr(a.http_addr).ok
    THEN Err("Invalid MCP_HTTP_ADDR '" \o a.http_addr \o "'")
    ELSE IF a.enable_sse /\ ~ParseAddr(a.sse_addr).ok
    THEN Err("Invalid MCP_SSE_ADDR '" \o a.sse_addr \o "'")
    ELSE IF a.enable_ws /\ ~ParseAddr(a.ws_addr).ok
    THEN Err("Invalid MCP_WS_ADDR '" \o a.ws_addr \o "'")
    ELSE IF a.enable_unix /\ IsBlank(a.unix_path)
    THEN Err("MCP_UNIX_PATH cannot be empty when unix transport is enabled")
    ELSE [ok |-> TRUE]

has_network(a) ==
    a.enable_tcp \/ a.enable_unix \/ a.enable_http \/ a.enable_sse \/ a.enable_ws

\* main.rs lines 55-81: validate, look for a running instance, call start_server
MainStart ==
    /\ main = "start"
    /\ pc = "idle"
    /\ \/ /\ ~validate(args).ok
          /\ main' = "exited"
          /\ report' = "Error: " \o validate(args).err
          /\ UNCHANGED pc
       \/ /\ validate(args).ok
          /\ has_network(args)
          /\ main' = "exited"      \* running_status: another instance runs
          /\ UNCHANGED <<pc, report>>
       \/ /\ validate(args).ok
          /\ main' = "awaiting"
          /\ pc' = "start"
          /\ UNCHANGED report
    /\ UNCHANGED <<args, pid, result, transports, endpoints, task, outcome,
                   bound, doneq, runtime_info, write, log, conns, next_handler,
                   pid_file, settings_file, wsvars, sinkvars, clientvars, extvars>>

\* faulty variant: the PID file is written whatever start_server returned
MainAfterStartAlwaysPid ==
    /\ main = "awaiting"
    /\ pc = "done"
    /\ main' = "exited"
    /\ \/ pid_file' = [written |-> TRUE, pid |-> pid]
       \/ UNCHANGED pid_file
    /\ IF result # "Ok"
       THEN UNCHANGED settings_file
       ELSE \/ settings_file' = [written |-> TRUE, args |-> args]
            \/ UNCHANGED settings_file
    /\ UNCHANGED <<args, pid, pc, result, transports, endpoints, task, outcome,
                   bound, doneq, runtime_info, write, log, conns, next_handler,
                   report, wsvars, sinkvars, clientvars, extvars>>

\* main.rs lines 81-98: start_server has returned
MainAfterStart ==
    /\ main = "awaiting"
    /\ pc = "done"
    /\ main' = "exited"
    /\ IF result # "Ok"
       THEN UNCHANGED <<pid_file, settings_file>>
       ELSE /\ \/ pid_file' = [written |-> TRUE, pid |-> pid]
               \/ UNCHANGED pid_file
            /\ \/ settings_file' = [written |-> TRUE, args |-> args]
               \/ UNCHANGED settings_file
    /\ UNCHANGED <<args, pid, pc, result, transports, endpoints, task, outcome,
                   bound, doneq, runtime_info, write, log, conns, next_handler,
                   report, wsvars, sinkvars, clientvars, extvars>>

\* status_report, main.rs lines 306-328: resolve the settings and print them
StatusReport ==
    /\ main = "status"
    /\ main' = "reported"
    /\ LET r == from_args(args)
       IN  IF r.ok
           THEN /\ transports' = r.state
                /\ endpoints' = active_endpoints(r.state)
                /\ report' = IF active_endpoints(r.state) = <<>>
                             THEN "no transports"
                             ELSE ToString(Len(active_endpoints(r.state)))
                                    \o " transports"
           ELSE /\ report' = "Error: " \o r.err
                /\ UNCHANGED <<transports, endpoints>>
    /\ UNCHANGED <<args, pid, pc, result, task, outcome, bound, doneq,
                   runtime_info, write, log, conns, next_handler,
                   pid_file, settings_file, wsvars, sinkvars, clientvars, extvars>>

InitEntry ==
    /\ args \in ArgsSet
    /\ pid \in Pids
    /\ \/ main = "lib" /\ pc = "start"
       \/ main \in {"start", "status"} /\ pc = "idle"
    /\ result = "none"
    /\ transports = NoState
    /\ endpoints = <<>>
    /\ task = [k \in Kinds |-> "none"]
    /\ outcome = [k \in Kinds |-> ""]
    /\ bound = [k \in Kinds |-> 0]
    /\ doneq = <<>>
    /\ runtime_info = NoFile
    /\ write = "none"
    /\ log = {}
    /\ conns = [c \in 1..MaxConns |-> FreeConn]
    /\ next_handler = 0
    /\ pid_file = NoFile
    /\ settings_file = NoFile
    /\ report = "none"
    /\ ws_frames = <<>>
    /\ ws_pos = 0
    /\ ws_rx = <<>>
    /\ ws_tx = <<>>
    /\ ws_send = NoSend
    /\ connection_string = <<>>
    /\ api_key = None
    /\ client = NoClient
    /\ stdio_streams = 0
    /\ FilesIdle
    /\ StorageIdle
    /\ SettingsIdle

NextEntry ==
    \/ Next
    \/ MainStart
    \/ MainAfterStart
    \/ StatusReport

SpecEntry == InitEntry /\ [][NextEntry]_vars

-----------------------------------------------------------------------------
(* The resolver alone: every configuration, the unix path possibly empty, *)
(* resolved by start_server, by main's Start branch and by status_report  *)

ArgsSetUnix ==
    {[a EXCEPT !.unix_path = p] : a \in ArgsSet, p \in UnixPaths \union {""}}

InitResolve ==
    /\ args \in ArgsSetUnix
    /\ pid \in Pids
    /\ \/ main = "lib" /\ pc = "start"
       \/ main \in {"start", "status"} /\ pc = "idle"
    /\ result = "none"
    /\ transports = NoState
    /\ endpoints = <<>>
    /\ task = [k \in Kinds |-> "none"]
    /\ outcome = [k \in Kinds |-> ""]
    /\ bound = [k \in Kinds |-> 0]
    /\ doneq = <<>>
    /\ runtime_info = NoFile
    /\ write = "none"
    /\ log = {}
    /\ conns = [c \in 1..MaxConns |-> FreeConn]
    /\ next_handler = 0
    /\ pid_file = NoFile
    /\ settings_file = NoFile
    /\ report = "none"
    /\ ws_frames = <<>>
    /\ ws_pos = 0
    /\ ws_rx = <<>>
    /\ ws_tx = <<>>
    /\ ws_send = NoSend
    /\ connection_string = <<>>
    /\ api_key = None
    /\ client = NoClient
    /\ stdio_streams = 0
    /\ FilesIdle
    /\ StorageIdle
    /\ SettingsIdle

NextResolve ==
    \/ MainStart
    \/ StatusReport
    \/ StartServerConfigError
    \/ StartServerSpawn

SpecResolve == InitResolve /\ [][NextResolve]_vars

-----------------------------------------------------------------------------
(* WebsocketTransport, lines 432-517: the adapter between the frames of a *)
(* WebSocket stream and the envelopes the router receives                 *)

\* requests carry an id, notifications none
Envelopes ==
    {[id |-> 1, method |-> "ping"], [id |-> 2, method |-> "tools/list"],
     [method |-> "notifications/initialized"]}

\* serde_json::to_string of an envelope (start_send, line 507)
to_string(e) ==
    "{\"jsonrpc\":\"2.0\""
        \o (IF "id" \in DOMAIN e THEN ",\"id\":" \o ToString(e.id) ELSE "")
        \o ",\"method\":\"" \o e.method \o "\"}"

\* serde_json::from_str::<RxJsonRpcMessage> (poll_next, lines 462-464)
\* faulty variant: the id of a request is not read back
from_str_drops_id(j) ==
    IF \E e \in Envelopes : to_string(e) = j
    THEN [ok |-> TRUE,
          msg |-> [method |-> (CHOOSE e \in Envelopes : to_string(e) = j).method]]
    ELSE [ok |-> FALSE]

from_str(j) ==
    IF \E e \in Envelopes : to_string(e) = j
    THEN [ok |-> TRUE, msg |-> CHOOSE e \in Envelopes : to_string(e) = j]
    ELSE [ok |-> FALSE]

Malformed == {"{\"jsonrpc\":"}

Texts == {to_string(e) : e \in Envelopes} \union Malformed

ControlKinds == {"Ping", "Pong", "Close"}

\* Item = Result<tungstenite::Message, tungstenite::Error>, "None" for the
\* end of the stream
Frames ==
    {[t |-> "Text", json |-> j] : j \in Texts}
      \union {[t |-> "Binary", json |-> to_string([id |-> 1, method |-> "ping"])]}
      \union {[t |-> x] : x \in ControlKinds \union {"Err", "None"}}

FrameSeqs == UNION {[1..n -> Frames] : n \in 0..MaxFrames}

Polled(poll, msg, pos, lg) == [poll |-> poll, msg |-> msg, pos |-> pos, log |-> lg]

RECURSIVE PollNextClosesOnParseError(_, _, _)
\* faulty variant: a text frame that does not parse ends the stream
PollNextClosesOnParseError(s, pos, lg) ==
    IF pos = Len(s)
    THEN Polled("Pending", None, pos, lg)
    ELSE LET f == s[pos + 1]
         IN  CASE f.t = "Text" ->
                    IF from_str(f.json).ok
                    THEN Polled("Ready", Some(from_str(f.json).msg), pos + 1, lg)
                    ELSE Polled("Ready", None, pos + 1,
                                lg \cup {"Websocket JSON parse error"})
               [] f.t = "Err" ->
                    PollNextClosesOnParseError(s, pos + 1,
                                        lg \cup {"Websocket read error"})
               [] f.t = "None" -> Polled("Ready", None, pos + 1, lg)
               [] OTHER -> PollNextClosesOnParseError(s, pos + 1, lg)

RECURSIVE PollNextDecodesBinary(_, _, _)
\* faulty variant: the payload of a binary frame is decoded like a text frame
PollNextDecodesBinary(s, pos, lg) ==
    IF pos = Len(s)
    THEN Polled("Pending", None, pos, lg)
    ELSE LET f == s[pos + 1]
         IN  CASE f.t \in {"Text", "Binary"} ->
                    IF from_str(f.json).ok
                    THEN Polled("Ready", Some(from_str(f.json).msg), pos + 1, lg)
                    ELSE PollNextDecodesBinary(s, pos + 1,
                                        lg \cup {"Websocket JSON parse error"})
               [] f.t = "Err" ->
                    PollNextDecodesBinary(s, pos + 1,
                                        lg \cup {"Websocket read error"})
               [] f.t = "None" -> Polled("Ready", None, pos + 1, lg)
               [] OTHER -> PollNextDecodesBinary(s, pos + 1, lg)

RECURSIVE PollNextEndsOnClose(_, _, _)
\* faulty variant: a close frame is reported as the end of the stream
PollNextEndsOnClose(s, pos, lg) ==
    IF pos = Len(s)
    THEN Polled("Pending", None, pos, lg)
    ELSE LET f == s[pos + 1]
         IN  CASE f.t = "Text" ->
                    IF from_str(f.json).ok
                    THEN Polled("Ready", Some(from_str(f.json).msg), pos + 1, lg)
                    ELSE PollNextEndsOnClose(s, pos + 1,
                                  lg \cup {"Websocket JSON parse error"})
               [] f.t = "Err" ->
                    PollNextEndsOnClose(s, pos + 1, lg \cup {"Websocket read error"})
               [] f.t \in {"None", "Close"} -> Polled("Ready", None, pos + 1, lg)
               [] OTHER -> PollNextEndsOnClose(s, pos + 1, lg)

RECURSIVE PollNext(_, _, _)
\* one call of poll_next, lines 447-481, on the inner stream s from item pos
PollNext(s, pos, lg) ==
    IF pos = Len(s)
    THEN Polled("Pending", None, pos, lg)
    ELSE LET f == s[pos + 1]
         IN  CASE f.t = "Text" ->
                    IF from_str(f.json).ok
                    THEN Polled("Ready", Some(from_str(f.json).msg), pos + 1, lg)
                    ELSE PollNext(s, pos + 1,
                                  lg \cup {"Websocket JSON parse error"})
               [] f.t = "Err" ->
                    PollNext(s, pos + 1, lg \cup {"Websocket read error"})
               [] f.t = "None" -> Polled("Ready", None, pos + 1, lg)
               [] OTHER -> PollNext(s, pos + 1, lg)

\* the router polls the transport of WebSocket connection c: an envelope is
\* received, or the stream has ended and serve returns
WsPollNext(c) ==
    /\ pc = "joining"
    /\ conns[c].st = "serving"
    /\ conns[c].kind = "ws"
    /\ ws_pos < Len(ws_frames)
    /\ LET r == PollNext(ws_frames, ws_pos, log)
       IN  /\ ws_pos' = r.pos
           /\ log' = r.log
           /\ ws_rx' = IF r.msg.some THEN Append(ws_rx, r.msg.val) ELSE ws_rx
           /\ conns' = IF r.poll = "Ready" /\ ~r.msg.some
                       THEN [conns EXCEPT ![c].st = "closed"]
                       ELSE conns
    /\ UNCHANGED <<args, pid, pc, result, transports, endpoints, task, outcome,
                   bound, doneq, runtime_info, write, next_handler>>
    /\ UNCHANGED <<mainvars, ws_frames, sinkvars, clientvars, extvars>>

\* faulty variant: the frame is written although serialization failed, as
\* a binary frame
WsStartSendAlways(c) ==
    /\ pc = "joining"
    /\ conns[c].st = "serving"
    /\ conns[c].kind = "ws"
    /\ Len(ws_tx) < MaxFrames
    /\ \E e \in Envelopes, ser \in BOOLEAN :
          /\ ws_tx' = Append(ws_tx, [t |-> "Binary", json |-> to_string(e)])
          /\ ws_send' = [item |-> e,
                         res |-> IF ser THEN "Ok" ELSE "internal_error: serialize"]
    /\ UNCHANGED <<args, pid, pc, result, transports, endpoints, task, outcome,
                   bound, doneq, runtime_info, write, log, conns, next_handler>>
    /\ UNCHANGED <<mainvars, wsvars, clientvars, extvars>>

\* start_send, lines 503-517: the router sends envelope e on WebSocket
\* connection c; serde_json::to_string and the inner sink may each fail
WsStartSend(c) ==
    /\ pc = "joining"
    /\ conns[c].st = "serving"
    /\ conns[c].kind = "ws"
    /\ Len(ws_tx) < MaxFrames
    /\ \E e \in Envelopes, ser \in BOOLEAN, sink \in BOOLEAN :
          IF ~ser
          THEN /\ ws_send' = [item |-> e, res |-> "internal_error: serialize"]
               /\ UNCHANGED ws_tx
          ELSE IF sink
          THEN /\ ws_tx' = Append(ws_tx, [t |-> "Text", json |-> to_string(e)])
               /\ ws_send' = [item |-> e, res |-> "Ok"]
          ELSE /\ ws_send' = [item |-> e, res |-> "internal_error: sink"]
               /\ \/ UNCHANGED ws_tx
                  \/ ws_tx' = Append(ws_tx, [t |-> "Text", json |-> to_string(e)])
    /\ UNCHANGED <<args, pid, pc, result, transports, endpoints, task, outcome,
                   bound, doneq, runtime_info, write, log, conns, next_handler>>
    /\ UNCHANGED <<mainvars, wsvars, clientvars, extvars>>

(* The accept loops of tcp, unix and ws and the connections they spawn *)

ConnKinds == {"tcp", "unix", "ws"}

AllAddrsParse(a) ==
    \A x \in {a.tcp_addr, a.http_addr, a.sse_addr, a.ws_addr} : ParseAddr(x).ok

InitConn ==
    /\ Init
    /\ AllAddrsParse(args)
    /\ from_args(args).ok
    /\ Enabled(from_args(args).state) # {}
    /\ Enabled(from_args(args).state) \subseteq ConnKinds

NextConn ==
    \/ StartServerSpawn
    \/ \E k \in ConnKinds : BindOk(k)
    \/ \E k \in ConnKinds : BindErr(k)
    \/ \E k \in ConnKinds : AcceptOk(k)
    \/ \E k \in ConnKinds : AcceptErr(k)
    \/ \E c \in 1..MaxConns : ConnStart(c)
    \/ \E c \in 1..MaxConns : WsHandshake(c)
    \/ \E c \in 1..MaxConns : ConnEnd(c)
    \/ JoinNextErr

SpecConn == InitConn /\ [][NextConn]_vars

(* The sessions of concurrent TCP connections *)

InitSession ==
    /\ Init
    /\ AllAddrsParse(args)
    /\ from_args(args).ok
    /\ Enabled(from_args(args).state) = {"tcp"}

NextSession ==
    \/ StartServerSpawn
    \/ BindOk("tcp")
    \/ BindErr("tcp")
    \/ AcceptOk("tcp")
    \/ AcceptErr("tcp")
    \/ \E c \in 1..MaxConns : ConnStart(c)
    \/ \E c \in 1..MaxConns : ClientSend(c)
    \/ \E c \in 1..MaxConns : HandleRequest(c)
    \/ \E c \in 1..MaxConns : ConnEnd(c)
    \/ JoinNextErr

SpecSession == InitSession /\ [][NextSession]_vars

-----------------------------------------------------------------------------
(* The accept loops of streamable HTTP and WebSocket *)

HttpWsKinds == {"http", "ws"}

InitAccept ==
    /\ Init
    /\ AllAddrsParse(args)
    /\ from_args(args).ok
    /\ Enabled(from_args(args).state) # {}
    /\ Enabled(from_args(args).state) \subseteq HttpWsKinds

NextAccept ==
    \/ StartServerSpawn
    \/ \E k \in HttpWsKinds : BindOk(k)
    \/ \E k \in HttpWsKinds : BindErr(k)
    \/ \E k \in HttpWsKinds : AcceptOk(k)
    \/ \E k \in HttpWsKinds : AcceptErr(k)
    \/ \E c \in 1..MaxConns : HttpServeConnection(c)
    \/ \E c \in 1..MaxConns : WsHandshake(c)
    \/ \E c \in 1..MaxConns : ConnEnd(c)
    \/ JoinNextErr

SpecAccept == InitAccept /\ [][NextAccept]_vars

-----------------------------------------------------------------------------
(* One WebSocket connection beside one TCP connection: every inner stream *)
(* of at most MaxFrames items                                              *)

WsArgs ==
    {a \in ArgsSet : /\ AllAddrsParse(a)
                     /\ Enabled(from_args(a).state) = {"tcp", "ws"}}

\* the state in which WebsocketTransport::new has wrapped the stream of an
\* accepted connection (line 389): both listeners are bound, connection 1 is
\* the WebSocket connection, connection 2 a TCP connection being served
Serving(k, h) == [FreeConn EXCEPT !.kind = k, !.st = "serving", !.handler = h]

InitWs ==
    /\ args \in WsArgs
    /\ pid \in Pids
    /\ pc = "joining"
    /\ result = "none"
    /\ transports = from_args(args).state
    /\ endpoints = active_endpoints(transports)
    /\ task = [k \in Kinds |-> IF k \in {"tcp", "ws"} THEN "listening" ELSE "none"]
    /\ outcome = [k \in Kinds |-> ""]
    /\ bound \in [Kinds -> EphemeralPorts \union {0}]
    /\ \A k \in Kinds : bound[k] # 0 <=> k \in {"tcp", "ws"}
    /\ doneq = <<>>
    /\ runtime_info = NoFile
    /\ write = "none"
    /\ log = {}
    /\ conns = [c \in 1..MaxConns |->
                   IF c = 1 THEN Serving("ws", 1)
                   ELSE IF c = 2 THEN Serving("tcp", 2) ELSE FreeConn]
    /\ next_handler = 2
    /\ main = "lib"
    /\ pid_file = NoFile
    /\ settings_file = NoFile
    /\ report = "none"
    /\ ws_frames \in FrameSeqs
    /\ ws_pos = 0
    /\ ws_rx = <<>>
    /\ ws_tx = <<>>
    /\ ws_send = NoSend
    /\ connection_string = <<>>
    /\ api_key = None
    /\ client = NoClient
    /\ stdio_streams = 0
    /\ FilesIdle
    /\ StorageIdle
    /\ SettingsIdle

NextWs ==
    \/ \E c \in 1..MaxConns : WsPollNext(c)
    \/ \E c \in 1..MaxConns : ConnEnd(c)

SpecWs == InitWs /\ [][NextWs]_vars

\* the same connections with nothing inbound: the router only sends
InitWsSend == InitWs /\ ws_frames = <<>>

NextWsSend ==
    \/ \E c \in 1..MaxConns : WsStartSend(c)
    \/ \E c \in 1..MaxConns : ConnEnd(c)

SpecWsSend == InitWsSend /\ [][NextWsSend]_vars

-----------------------------------------------------------------------------
(* create_payload_client, src/src/payload_tools/client.rs: strings are    *)
(* sequences of characters                                                 *)

Http == <<"h", "t", "t", "p">>
HttpScheme == <<"h", "t", "t", "p", ":", "/", "/">>
HttpsScheme == <<"h", "t", "t", "p", "s", ":", "/", "/">>

\* str::starts_with
starts_with(str, prefix) ==
    /\ Len(str) >= Len(prefix)
    /\ SubSeq(str, 1, Len(prefix)) = prefix

RECURSIVE trim_end_matches(_, _)
\* str::trim_end_matches(char)
trim_end_matches(str, ch) ==
    IF str # <<>> /\ str[Len(str)] = ch
    THEN trim_end_matches(SubSeq(str, 1, Len(str) - 1), ch)
    ELSE str

\* PayloadClient::new, lines 66-71
PayloadClient_new(config) ==
    [created |-> TRUE,
     base_url |-> trim_end_matches(config.base_url, "/"),
     api_key |-> config.api_key]

\* create_payload_client, lines 234-243
create_payload_client(cs, key) ==
    LET base_url == IF starts_with(cs, Http) THEN cs ELSE HttpScheme \o cs
    IN  PayloadClient_new([base_url |-> base_url, api_key |-> key])

Slashes(n) == [i \in 1..n |-> "/"]

Hosts == {<<>>, <<"a">>, <<"a", ":", "3">>, <<"h", "t", "t", "p", "d">>}

ConnectionStrings ==
    {pre \o host \o Slashes(n) :
        pre \in {<<>>, HttpScheme, HttpsScheme}, host \in Hosts,
        n \in 0..MaxSlashes}

ApiKeys == {None, Some("key")}

CreatePayloadClient ==
    /\ client = NoClient
    /\ client' = create_payload_client(connection_string, api_key)
    /\ UNCHANGED <<args, pid, pc, result, transports, endpoints, task, outcome,
                   bound, doneq, runtime_info, write, log, conns, next_handler,
                   connection_string, api_key>>
    /\ UNCHANGED <<mainvars, wsvars, sinkvars, extvars>>

\* start_server is not running; a tool is about to create its client
InitClient ==
    /\ args \in WsArgs
    /\ pid \in Pids
    /\ pc = "idle"
    /\ main = "lib"
    /\ result = "none"
    /\ transports = NoState
    /\ endpoints = <<>>
    /\ task = [k \in Kinds |-> "none"]
    /\ outcome = [k \in Kinds |-> ""]
    /\ bound = [k \in Kinds |-> 0]
    /\ doneq = <<>>
    /\ runtime_info = NoFile
    /\ write = "none"
    /\ log = {}
    /\ conns = [c \in 1..MaxConns |-> FreeConn]
    /\ next_handler = 0
    /\ pid_file = NoFile
    /\ settings_file = NoFile
    /\ report = "none"
    /\ ws_frames = <<>>
    /\ ws_pos = 0
    /\ ws_rx = <<>>
    /\ ws_tx = <<>>
    /\ ws_send = NoSend
    /\ connection_string \in ConnectionStrings
    /\ api_key \in ApiKeys
    /\ client = NoClient
    /\ stdio_streams = 0
    /\ FilesIdle
    /\ StorageIdle
    /\ SettingsIdle

NextClient == CreatePayloadClient

SpecClient == InitClient /\ [][NextClient]_vars

-----------------------------------------------------------------------------
(* Storage::save, storage.rs lines 91-103, and the closure of            *)
(* save_snapshot_async, lines 65-76: the same steps on the same two paths *)

\* the StorageData values handed to a save; their serializations differ in
\* length
Snapshots == {"empty", "one_goal"}

SerBlocks == [d \in Snapshots |-> IF d = "empty" THEN 1 ELSE 2]

\* serde_json::to_string_pretty(&data), in blocks of the file
to_string_pretty(d) == [i \in 1..SerBlocks[d] |-> [of |-> d, block |-> i]]

\* a block nobody wrote: the hole a write past the end of a file leaves
ZeroBlock == [of |-> "zero", block |-> 0]

\* write(2) of one block at offset off of a file holding content
WriteAt(content, off, b) ==
    IF off < Len(content)
    THEN [content EXCEPT ![off + 1] = b]
    ELSE content \o [i \in 1..(off - Len(content)) |-> ZeroBlock] \o <<b>>

Temp == "data.tmp"          \* storage_path.with_extension("tmp")
StoragePath == "data.json"

SaveReturn(p, r) ==
    saver' = [saver EXCEPT ![p] = [pc |-> "returned", data |-> saver[p].data,
                                   res |-> r]]

\* a caller enters save with its snapshot; create_dir_all succeeds or fails
SaveCall(p) ==
    /\ saver[p].pc = "idle"
    /\ \E d \in Snapshots :
          \/ saver' = [saver EXCEPT ![p] = [pc |-> "create", data |-> d]]
          \/ saver' = [saver EXCEPT ![p] = [pc |-> "returned", data |-> d,
                                            res |-> "Io"]]
    /\ UNCHANGED <<dir, inode>>

\* File::create(&temp): a new empty file, or the existing one truncated
SaveCreate(p) ==
    /\ saver[p].pc = "create"
    /\ \/ /\ dir[Temp] = 0
          /\ inode' = Append(inode, <<>>)
          /\ dir' = [dir EXCEPT ![Temp] = Len(inode) + 1]
          /\ saver' = [saver EXCEPT ![p] = [pc |-> "write", data |-> @.data,
                                            fd |-> Len(inode) + 1, off |-> 0]]
       \/ /\ dir[Temp] # 0
          /\ inode' = [inode EXCEPT ![dir[Temp]] = <<>>]
          /\ saver' = [saver EXCEPT ![p] = [pc |-> "write", data |-> @.data,
                                            fd |-> dir[Temp], off |-> 0]]
          /\ UNCHANGED dir
       \/ /\ SaveReturn(p, "Io")
          /\ UNCHANGED <<dir, inode>>

\* f.write_all(content): the next block goes to the open file at the
\* descriptor's offset, or the write fails
SaveWrite(p) ==
    /\ saver[p].pc = "write"
    /\ saver[p].off < SerBlocks[saver[p].data]
    /\ \/ /\ inode' = [inode EXCEPT ![saver[p].fd] =
                          WriteAt(@, saver[p].off,
                                  to_string_pretty(saver[p].data)[saver[p].off + 1])]
          /\ saver' = [saver EXCEPT ![p].off = @ + 1]
       \/ /\ SaveReturn(p, "Io")
          /\ UNCHANGED inode
    /\ UNCHANGED dir

\* f.sync_all()
SaveSync(p) ==
    /\ saver[p].pc = "write"
    /\ saver[p].off = SerBlocks[saver[p].data]
    /\ \/ saver' = [saver EXCEPT ![p] = [pc |-> "rename", data |-> @.data]]
       \/ SaveReturn(p, "Io")
    /\ UNCHANGED <<dir, inode>>

\* fs::rename(temp, &storage_path): the name of the data file now refers to
\* the file the temporary name referred to; it fails when that name is gone
SaveRename(p) ==
    /\ saver[p].pc = "rename"
    /\ \/ /\ dir[Temp] # 0
          /\ \/ /\ dir' = [dir EXCEPT ![StoragePath] = dir[Temp], ![Temp] = 0]
                /\ SaveReturn(p, "Ok")
             \/ /\ SaveReturn(p, "Io")
                /\ UNCHANGED dir
       \/ /\ dir[Temp] = 0
          /\ SaveReturn(p, "Io")
          /\ UNCHANGED dir
    /\ UNCHANGED inode

ServerIdle ==
    /\ args \in WsArgs
    /\ pid \in Pids
    /\ pc = "idle"
    /\ main = "lib"
    /\ result = "none"
    /\ transports = NoState
    /\ endpoints = <<>>
    /\ task = [k \in Kinds |-> "none"]
    /\ outcome = [k \in Kinds |-> ""]
    /\ bound = [k \in Kinds |-> 0]
    /\ doneq = <<>>
    /\ runtime_info = NoFile
    /\ write = "none"
    /\ log = {}
    /\ conns = [c \in 1..MaxConns |-> FreeConn]
    /\ next_handler = 0
    /\ pid_file = NoFile
    /\ settings_file = NoFile
    /\ report = "none"
    /\ ws_frames = <<>>
    /\ ws_pos = 0
    /\ ws_rx = <<>>
    /\ ws_tx = <<>>
    /\ ws_send = NoSend
    /\ connection_string = <<>>
    /\ api_key = None
    /\ client = NoClient
    /\ stdio_streams = 0

\* the data file does not exist yet, or an earlier save has left a snapshot
InitSave ==
    /\ ServerIdle
    /\ StorageIdle
    /\ SettingsIdle
    /\ saver = [p \in Savers |-> [pc |-> "idle"]]
    /\ \/ /\ dir = [n \in FileNames |-> 0]
          /\ inode = <<>>
       \/ \E d \in Snapshots :
             /\ dir = [n \in FileNames |-> IF n = StoragePath THEN 1 ELSE 0]
             /\ inode = <<to_string_pretty(d)>>

SaveStep(p) ==
    /\ \/ SaveCall(p)
       \/ SaveCreate(p)
       \/ SaveWrite(p)
       \/ SaveSync(p)
       \/ SaveRename(p)
    /\ UNCHANGED <<args, pid, pc, result, transports, endpoints, task, outcome,
                   bound, doneq, runtime_info, write, log, conns, next_handler,
                   stdio_streams, storevars, settingsvars>>
    /\ UNCHANGED <<mainvars, wsvars, sinkvars, clientvars>>

NextSave == \E p \in Savers : SaveStep(p)

SpecSave == InitSave /\ [][NextSave]_vars

-----------------------------------------------------------------------------
(* Storage: goals, plans and todos in memory, storage.rs lines 116-229 *)

GoalIds == {"g1", "g2"}       \* the goal_id strings callers pass
PlannedGoals == {"g1"}        \* those they create a plan for
Descriptions == {"ship it"}
Titles == {"write tests"}

\* the Todo values callers hand to add_todo: the id, the flag and the
\* timestamps are theirs to choose; title stands for the payload fields
\* (title, description, complexity, code_example), which add_todo copies
TodoInputs ==
    {[id |-> 0, title |-> t, is_complete |-> FALSE,
      created_at |-> 0, updated_at |-> 0] : t \in Titles}
    \union {[id |-> 1, title |-> t, is_complete |-> TRUE,
             created_at |-> 7, updated_at |-> 7] : t \in Titles}

\* HashMap::insert
Insert(map, k, v) ==
    [x \in DOMAIN map \union {k} |-> IF x = k THEN v ELSE map[x]]

\* the readings of Utc::now() a call may take after one at the current time
Later == {t \in clock..MaxClock : t <= clock + 1}

\* time passes between two calls
Tick ==
    /\ clock < MaxClock
    /\ clock' = clock + 1
    /\ UNCHANGED <<data, next_ulid, call>>

\* lines 116-125
create_goal(description) ==
    /\ next_ulid < MaxUlids
    /\ LET goal == [id |-> next_ulid + 1, description |-> description,
                    created_at |-> clock]
       IN  /\ data' = [data EXCEPT !.goals = Insert(@, goal.id, goal)]
           /\ call' = [op |-> "create_goal", res |-> "Ok", goal |-> goal]
    /\ next_ulid' = next_ulid + 1
    /\ UNCHANGED clock

\* lines 131-140: a plan for goal_id, in place of the one it may have had
create_plan(goal_id) ==
    /\ LET plan == [goal_id |-> goal_id, todos |-> <<>>, updated_at |-> clock]
       IN  /\ data' = [data EXCEPT !.plans = Insert(@, goal_id, plan)]
           /\ call' = [op |-> "create_plan", goal_id |-> goal_id,
                       res |-> "Ok", plan |-> plan]
    /\ UNCHANGED <<clock, next_ulid>>

\* faulty variant: the flag the caller supplied is kept
add_todo_keeps_flag(goal_id, todo) ==
    IF goal_id \notin DOMAIN data.plans
    THEN /\ call' = [op |-> "add_todo", goal_id |-> goal_id, arg |-> todo,
                     res |-> "PlanNotFound"]
         /\ UNCHANGED <<data, clock, next_ulid>>
    ELSE /\ next_ulid < MaxUlids
         /\ \E t2 \in Later :
               LET added == [todo EXCEPT !.id = next_ulid + 1,
                                         !.created_at = clock,
                                         !.updated_at = clock]
               IN  /\ data' = [data EXCEPT
                                 !.plans[goal_id].todos = Append(@, added),
                                 !.plans[goal_id].updated_at = t2]
                   /\ call' = [op |-> "add_todo", goal_id |-> goal_id,
                               arg |-> todo, res |-> "Ok", todo |-> added]
                   /\ clock' = t2
         /\ next_ulid' = next_ulid + 1

\* lines 146-169
add_todo(goal_id, todo) ==
    IF goal_id \notin DOMAIN data.plans
    THEN /\ call' = [op |-> "add_todo", goal_id |-> goal_id, arg |-> todo,
                     res |-> "PlanNotFound"]
         /\ UNCHANGED <<data, clock, next_ulid>>
    ELSE /\ next_ulid < MaxUlids
         /\ \E t2 \in Later :
               LET added == [todo EXCEPT !.id = next_ulid + 1,
                                         !.created_at = clock,
                                         !.updated_at = clock,
                                         !.is_complete = FALSE]
               IN  /\ data' = [data EXCEPT
                                 !.plans[goal_id].todos = Append(@, added),
                                 !.plans[goal_id].updated_at = t2]
                   /\ call' = [op |-> "add_todo", goal_id |-> goal_id,
                               arg |-> todo, res |-> "Ok", todo |-> added]
                   /\ clock' = t2
         /\ next_ulid' = next_ulid + 1

\* faulty variant: the plan is stamped before the todo is looked for
remove_todo_stamps_first(goal_id, todo_id) ==
    IF goal_id \notin DOMAIN data.plans
    THEN /\ call' = [op |-> "remove_todo", goal_id |-> goal_id,
                     todo_id |-> todo_id, res |-> "PlanNotFound"]
         /\ UNCHANGED <<data, clock, next_ulid>>
    ELSE LET before == data.plans[goal_id].todos
             kept == SelectSeq(before, LAMBDA t : t.id # todo_id)
         IN  /\ data' = [data EXCEPT !.plans[goal_id].todos = kept,
                                    !.plans[goal_id].updated_at = clock]
             /\ call' = [op |-> "remove_todo", goal_id |-> goal_id,
                         todo_id |-> todo_id,
                         res |-> IF Len(kept) = Len(before)
                                 THEN "TodoNotFound" ELSE "Ok"]
             /\ UNCHANGED <<clock, next_ulid>>

\* lines 171-194
remove_todo(goal_id, todo_id) ==
    IF goal_id \notin DOMAIN data.plans
    THEN /\ call' = [op |-> "remove_todo", goal_id |-> goal_id,
                     todo_id |-> todo_id, res |-> "PlanNotFound"]
         /\ UNCHANGED <<data, clock, next_ulid>>
    ELSE LET before == data.plans[goal_id].todos
             kept == SelectSeq(before, LAMBDA t : t.id # todo_id)
         IN  IF Len(kept) = Len(before)
             THEN /\ data' = [data EXCEPT !.plans[goal_id].todos = kept]
                  /\ call' = [op |-> "remove_todo", goal_id |-> goal_id,
                              todo_id |-> todo_id, res |-> "TodoNotFound"]
                  /\ UNCHANGED <<clock, next_ulid>>
             ELSE /\ data' = [data EXCEPT !.plans[goal_id].todos = kept,
                                         !.plans[goal_id].updated_at = clock]
                  /\ call' = [op |-> "remove_todo", goal_id |-> goal_id,
                              todo_id |-> todo_id, res |-> "Ok"]
                  /\ UNCHANGED <<clock, next_ulid>>

\* Iterator::find: the index of the first todo with that id, 0 if none
Find(todos, todo_id) ==
    LET hits == {i \in 1..Len(todos) : todos[i].id = todo_id}
    IN  IF hits = {} THEN 0 ELSE CHOOSE i \in hits : \A j \in hits : i <= j

\* lines 196-220
update_todo_status(goal_id, todo_id, is_complete) ==
    IF goal_id \notin DOMAIN data.plans
    THEN /\ call' = [op |-> "update_todo_status", goal_id |-> goal_id,
                     todo_id |-> todo_id, res |-> "PlanNotFound"]
         /\ UNCHANGED <<data, clock, next_ulid>>
    ELSE LET i == Find(data.plans[goal_id].todos, todo_id)
         IN  IF i = 0
             THEN /\ call' = [op |-> "update_todo_status", goal_id |-> goal_id,
                              todo_id |-> todo_id, res |-> "TodoNotFound"]
                  /\ UNCHANGED <<data, clock, next_ulid>>
             ELSE \E t2 \in Later :
                     LET updated == [data.plans[goal_id].todos[i] EXCEPT
                                       !.is_complete = is_complete,
                                       !.updated_at = clock]
                     IN  /\ data' = [data EXCEPT
                                       !.plans[goal_id].todos[i] = updated,
                                       !.plans[goal_id].updated_at = t2]
                         /\ call' = [op |-> "update_todo_status",
                                     goal_id |-> goal_id, todo_id |-> todo_id,
                                     res |-> "Ok", todo |-> updated]
                         /\ clock' = t2
                         /\ UNCHANGED next_ulid

\* lines 222-229
get_todos(goal_id) ==
    /\ call' = IF goal_id \in DOMAIN data.plans
               THEN [op |-> "get_todos", goal_id |-> goal_id, res |-> "Ok",
                     todos |-> data.plans[goal_id].todos]
               ELSE [op |-> "get_todos", goal_id |-> goal_id,
                     res |-> "PlanNotFound"]
    /\ UNCHANGED <<data, clock, next_ulid>>

\* the todo ids a caller may pass: those generated so far and one never seen
TodoIds == 1..(next_ulid + 1)

StorageStep ==
    /\ \/ Tick
       \/ \E d \in Descriptions : create_goal(d)
       \/ \E g \in PlannedGoals : create_plan(g)
       \/ \E g \in GoalIds, t \in TodoInputs : add_todo(g, t)
       \/ \E g \in GoalIds, i \in TodoIds : remove_todo(g, i)
       \/ \E g \in GoalIds, i \in TodoIds, b \in BOOLEAN :
             update_todo_status(g, i, b)
       \/ \E g \in GoalIds : get_todos(g)
    /\ UNCHANGED <<args, pid, pc, result, transports, endpoints, task, outcome,
                   bound, doneq, runtime_info, write, log, conns, next_handler,
                   stdio_streams, filevars, settingsvars>>
    /\ UNCHANGED <<mainvars, wsvars, sinkvars, clientvars>>

InitStorage ==
    /\ ServerIdle
    /\ FilesIdle
    /\ StorageIdle
    /\ SettingsIdle

NextStorage == StorageStep

SpecStorage == InitStorage /\ [][NextStorage]_vars

-----------------------------------------------------------------------------
(* main's Start branch, lines 55-56: load_settings, then overlay_args *)

\* the fields of SettingsFile, main.rs lines 127-143
SettingsFields == Fields \ {"runtime_info_file", "foreground"}

\* a value of the field other than its built-in default
Other(f) ==
    CASE f = "server_name" -> "my-server"
      [] f = "server_description" -> "my description"
      [] f \in {"enable_stdio", "enable_http", "enable_sse"} -> FALSE
      [] f \in {"enable_tcp", "enable_unix", "enable_ws", "foreground"} -> TRUE
      [] f = "tcp_addr" -> "127.0.0.1:7000"
      [] f \in {"http_addr", "sse_addr", "ws_addr"} -> "127.0.0.1:8000"
      [] f = "unix_path" -> "/run/mcp.sock"
      [] f = "pid_file" -> "/run/mcp.pid"
      [] f = "runtime_info_file" -> "/run/mcp.runtime.json"

\* the contents of settings.json: some fields present, the rest absent
SettingsFiles ==
    {[f \in SettingsFields |-> IF f \in present THEN Some(Other(f)) ELSE None] :
        present \in {x \in SUBSET SettingsFields : Cardinality(x) <= MaxLoaded}}

\* apply_settings, main.rs lines 190-238
apply_settings(settings, base) ==
    [f \in Fields |->
        IF f \in SettingsFields /\ settings[f].some
        THEN settings[f].val ELSE base[f]]

\* load_settings, main.rs lines 147-155, for a settings.json that parses
load_settings(settings) == apply_settings(settings, default_settings)

\* the command lines of a foreground start: the options clap offers
\* (server_name and server_description are skipped, cli.rs lines 35-40),
\* some given a value other than the default
ArgFields == Fields \ {"server_name", "server_description", "foreground"}

CommandLines ==
    {[f \in Fields |->
        IF f = "foreground" THEN TRUE
        ELSE IF f \in given THEN Other(f) ELSE default_settings[f]] :
        given \in {x \in SUBSET ArgFields : Cardinality(x) <= MaxOverridden}}

\* the fields overlay_args compares, main.rs lines 242-283
OverlayFields ==
    {"server_name", "server_description", "enable_stdio", "enable_tcp",
     "enable_unix", "enable_http", "enable_sse", "enable_ws", "tcp_addr",
     "http_addr", "sse_addr", "ws_addr", "unix_path", "pid_file"}

\* overlay_args, main.rs lines 240-284
overlay_args(target, over) ==
    [f \in Fields |->
        IF f \in OverlayFields /\ over[f] # default_settings[f]
        THEN over[f] ELSE target[f]]

\* main.rs line 56
OverlayArgs ==
    /\ effective = NoSettings
    /\ effective' = overlay_args(loaded, overrides)
    /\ UNCHANGED <<loaded, overrides>>
    /\ UNCHANGED <<args, pid, pc, result, transports, endpoints, task, outcome,
                   bound, doneq, runtime_info, write, log, conns, next_handler,
                   stdio_streams, filevars, storevars>>
    /\ UNCHANGED <<mainvars, wsvars, sinkvars, clientvars>>

InitOverlay ==
    /\ ServerIdle
    /\ FilesIdle
    /\ StorageIdle
    /\ loaded \in {load_settings(sf) : sf \in SettingsFiles}
    /\ overrides \in CommandLines
    /\ effective = NoSettings

NextOverlay == OverlayArgs

SpecOverlay == InitOverlay /\ [][NextOverlay]_vars

-----------------------------------------------------------------------------
(* Properties *)

Range(q) == {q[i] : i \in DOMAIN q}

\* the initial states of SpecWs are states SpecConn reaches
ReachedInitWs ==
    /\ args \in WsArgs
    /\ pc = "joining"
    /\ result = "none"
    /\ transports = from_args(args).state
    /\ endpoints = active_endpoints(transports)
    /\ task = [k \in Kinds |-> IF k \in {"tcp", "ws"} THEN "listening" ELSE "none"]
    /\ outcome = [k \in Kinds |-> ""]
    /\ \A k \in Kinds : bound[k] # 0 <=> k \in {"tcp", "ws"}
    /\ doneq = <<>>
    /\ log = {}
    /\ conns = [c \in 1..MaxConns |->
                   IF c = 1 THEN Serving("ws", 1)
                   ELSE IF c = 2 THEN Serving("tcp", 2) ELSE FreeConn]
    /\ next_handler = 2

NetOrder == <<"tcp", "http", "sse", "ws">>

EnableFlag(a, k) ==
    CASE k = "stdio" -> a.enable_stdio
      [] k = "tcp" -> a.enable_tcp
      [] k = "unix" -> a.enable_unix
      [] k = "http" -> a.enable_http
      [] k = "sse" -> a.enable_sse
      [] k = "ws" -> a.enable_ws

AddrField(a, k) ==
    CASE k = "tcp" -> a.tcp_addr
      [] k = "http" -> a.http_addr
      [] k = "sse" -> a.sse_addr
      [] k = "ws" -> a.ws_addr

InvalidMsg(k) ==
    CASE k = "tcp" -> "Invalid MCP_TCP_ADDR"
      [] k = "http" -> "Invalid MCP_HTTP_ADDR"
      [] k = "sse" -> "Invalid MCP_SSE_ADDR"
      [] k = "ws" -> "Invalid MCP_WS_ADDR"

NothingBound ==
    /\ \A k \in Kinds : task[k] = "none" /\ bound[k] = 0 /\ outcome[k] = ""
    /\ doneq = <<>>
    /\ \A c \in 1..MaxConns : conns[c].st = "free"

\* C1: with all six enable flags false, whatever the address strings are,
\* start_server fails with the "no transports enabled" error and no listener
\* task is spawned and nothing is bound, at any point of the run.
C1_NoTransportsEnabled ==
    (\A k \in Kinds : ~EnableFlag(args, k)) =>
        /\ NothingBound
        /\ pc \in {"start", "done"}
        /\ pc = "done" => result = NoTransportsEnabled

C1_Witness ==
    /\ \A k \in Kinds : ~EnableFlag(args, k)
    /\ \A i \in DOMAIN NetOrder : ~ParseAddr(AddrField(args, NetOrder[i])).ok
    /\ pc = "done"
    /\ result = NoTransportsEnabled

\* C2 (as claimed): once TCP configured with 127.0.0.1:0 is bound, the TCP
\* descriptor in the endpoints list and in active_endpoints() carries the
\* bound port, which is not 0, and the requested port 0 is not reported.
C2_BoundPortReported ==
    (args.tcp_addr = "127.0.0.1:0" /\ bound["tcp"] # 0) =>
        /\ ("tcp@127.0.0.1:" \o ToString(bound["tcp"])) \in Range(endpoints)
        /\ "tcp@127.0.0.1:0" \notin Range(endpoints)
        /\ "tcp@127.0.0.1:0" \notin Range(active_endpoints(transports))

\* the failed tasks waiting in the JoinSet, in the order they failed
FailedIn(q) == SelectSeq(q, LAMBDA k : outcome[k] # "Ok")

\* C3: when a listener task has ended with a fatal error, start_server does
\* not return Ok; when it returns, it returns the error of the first task
\* that failed, without waiting for the tasks that are still serving.
C3_FirstFatalError ==
    /\ [](pc = "done" /\ (\E k \in Kinds : outcome[k] \notin {"", "Ok"})
            => result \notin {"none", "Ok"})
    /\ [][(pc = "joining" /\ pc' = "done" /\ FailedIn(doneq) # <<>>)
            => result' = outcome[Head(FailedIn(doneq))]]_vars

C3_Witness ==
    /\ pc = "done"
    /\ result = "TCP bind error"
    /\ Len(doneq) >= 1
    /\ \E j \in Kinds : task[j] = "aborted" /\ bound[j] # 0

\* C4 (as claimed): once the join of the listener tasks is over, with success
\* or with a task's fatal error, the runtime info file has been written (or
\* the write was tried and failed).
C4_RuntimeInfoAfterJoin ==
    (pc = "done" /\ transports # NoState) => write # "none"

\* C5 (as claimed): no listener task finishes with success, and start_server
\* never returns Ok.
C5_TasksEndOnlyByError ==
    /\ \A k \in Kinds : outcome[k] # "Ok"
    /\ result # "Ok"

NoDuplicates(q) == \A i, j \in DOMAIN q : i # j => q[i] # q[j]

\* C6 (as claimed): the endpoints list written to the runtime info has one
\* entry per enabled transport and no descriptor twice.
C6_OneDescriptorPerTransport ==
    runtime_info # NoFile =>
        /\ NoDuplicates(runtime_info.endpoints)
        /\ Len(runtime_info.endpoints) = Cardinality(Enabled(transports))

\* an accept failure of listener k has surfaced, as its task's result or in
\* the log
AcceptFailed(k) ==
    \/ outcome[k] = Prefix(k) \o " accept error"
    \/ (Prefix(k) \o " accept error") \in log

ConnsOf(k) == {c \in 1..MaxConns : conns[c].kind = k}

\* C7: after a failed accept the TCP or Unix acceptor is over: its task has
\* ended with the accept error, it accepts no further connection, and when
\* the supervisor joins the task start_server fails with that error.
C7_AcceptFailureFatal ==
    /\ [](\A k \in {"tcp", "unix"} : AcceptFailed(k) =>
            /\ task[k] \in {"done", "joined"}
            /\ outcome[k] = Prefix(k) \o " accept error"
            /\ task[k] = "joined" => (pc = "done" /\ result = outcome[k]))
    /\ [][\A k \in {"tcp", "unix"} : AcceptFailed(k) =>
            /\ ConnsOf(k)' = ConnsOf(k)
            /\ task'[k] \in {"done", "joined"}]_vars

C7_Witness ==
    /\ pc = "done"
    /\ result = "Unix accept error"
    /\ task["unix"] = "joined"
    /\ ConnsOf("unix") # {}
    /\ \E c \in 1..MaxConns : conns[c].st = "free"

\* C8: a failed WebSocket handshake is logged and closes only its own
\* connection: the step changes neither the listener tasks nor what
\* start_server returns nor any other connection, so the listener keeps
\* accepting; no task and no start_server result is a handshake error.
C8_HandshakeFailureNonFatal ==
    /\ [](/\ \A k \in Kinds : outcome[k] # "Websocket handshake error"
          /\ result # "Websocket handshake error"
          /\ ("Websocket handshake error" \in log =>
                \E c \in 1..MaxConns :
                    conns[c] = [FreeConn EXCEPT !.kind = "ws", !.st = "closed"]))
    /\ [][\A c \in 1..MaxConns :
            (conns[c].kind = "ws" /\ conns[c].st = "accepted"
                /\ conns'[c].st = "closed") =>
              /\ "Websocket handshake error" \in log'
              /\ task' = task /\ outcome' = outcome /\ doneq' = doneq
              /\ pc' = pc /\ result' = result
              /\ \A d \in 1..MaxConns \ {c} : conns'[d] = conns[d]]_vars

C8_Witness ==
    /\ "Websocket handshake error" \in log
    /\ task["ws"] = "listening"
    /\ pc = "joining"
    /\ \E c, d \in 1..MaxConns :
          /\ c < d
          /\ conns[c].kind = "ws" /\ conns[c].st = "closed" /\ conns[c].handler = 0
          /\ conns[d].kind = "ws" /\ conns[d].st = "serving"

Started == {c \in 1..MaxConns : conns[c].handler # 0}

\* C9: every started connection has a RequestHandler no other connection
\* has, and every response a connection receives answers a request sent on
\* that connection and was produced by that connection's handler.
C9_NoCrossConnectionLeak ==
    /\ \A c, d \in Started : c # d => conns[c].handler # conns[d].handler
    /\ \A c \in 1..MaxConns : \A i \in DOMAIN conns[c].outbox :
          /\ conns[c].outbox[i].origin = c
          /\ conns[c].outbox[i].handler = conns[c].handler

C9_Witness ==
    /\ \A c \in {1, 2} :
          /\ conns[c].kind = "tcp"
          /\ conns[c].st = "serving"
          /\ conns[c].outbox # <<>>
    /\ conns[1].outbox[1].id = conns[2].outbox[1].id

BadKinds(a) ==
    {k \in Range(NetOrder) : EnableFlag(a, k) /\ ~ParseAddr(AddrField(a, k)).ok}

FirstBad(a) ==
    NetOrder[CHOOSE i \in DOMAIN NetOrder :
                /\ NetOrder[i] \in BadKinds(a)
                /\ \A j \in 1..(i - 1) : NetOrder[j] \notin BadKinds(a)]

\* C10: when enabled transports have unparsable addresses, start_server
\* returns the error of the earliest of them in the order tcp, http, sse, ws
\* and spawns nothing; the address of a disabled transport causes no error.
C10_FailFastOrder ==
    pc # "start" =>
        IF BadKinds(args) # {}
        THEN /\ pc = "done"
             /\ result = InvalidMsg(FirstBad(args))
             /\ NothingBound
        ELSE result \notin {InvalidMsg(k) : k \in Range(NetOrder)}

C10_Witness ==
    /\ pc = "done"
    /\ BadKinds(args) = {"http", "ws"}
    /\ ~args.enable_tcp /\ ~ParseAddr(args.tcp_addr).ok
    /\ result = "Invalid MCP_HTTP_ADDR"

NoneEnabled(a) == \A k \in Kinds : ~EnableFlag(a, k)

Spawned == \E k \in Kinds : task[k] # "none"

ConfigError(a) == NoneEnabled(a) \/ BadKinds(a) # {}

\* C12: when the configuration is rejected (an enabled address does not
\* parse, or nothing is enabled), no task is spawned, no socket is bound and
\* no file is written (runtime info, PID file, settings), and start_server,
\* once called, returns that error.
C12_ConfigErrorNoSideEffect ==
    ConfigError(args) =>
        /\ NothingBound
        /\ runtime_info = NoFile
        /\ write = "none"
        /\ pid_file = NoFile
        /\ settings_file = NoFile
        /\ pc \in {"idle", "start", "done"}
        /\ pc = "done" =>
              result \in {NoTransportsEnabled}
                            \union {InvalidMsg(k) : k \in Range(NetOrder)}

C12_Witness ==
    /\ pc = "done"
    /\ args.enable_stdio
    /\ BadKinds(args) = {"sse"}
    /\ result = "Invalid MCP_SSE_ADDR"
    /\ pid_file = NoFile
    /\ runtime_info = NoFile

NonText == {"Binary"} \union ControlKinds

IsValidText(f) == f.t = "Text" /\ f.json \in {to_string(e) : e \in Envelopes}

IsMalformedText(f) == f.t = "Text" /\ ~IsValidText(f)

Decode(f) == CHOOSE e \in Envelopes : to_string(e) = f.json

Delivered(q) ==
    LET sel == SelectSeq(q, IsValidText)
    IN  [i \in 1..Len(sel) |-> Decode(sel[i])]

Consumed == SubSeq(ws_frames, 1, ws_pos)

WsConns == {c \in 1..MaxConns : conns[c].kind = "ws"}

\* C13: binary, ping, pong and close frames produce no envelope and no
\* warning, and poll_next goes on to the next item instead of returning at
\* them: the envelopes received are exactly the valid text frames taken, in
\* order; a binary frame followed by a valid text frame yields one envelope.
C13_NonTextFramesSkipped ==
    /\ ws_rx = Delivered(Consumed)
    /\ (\A i \in 1..ws_pos : ws_frames[i].t \in NonText)
          => /\ ws_rx = <<>>
             /\ log \cap {"Websocket JSON parse error", "Websocket read error"} = {}
    /\ (0 < ws_pos /\ ws_pos < Len(ws_frames))
          => ws_frames[ws_pos].t \notin NonText
    /\ (/\ ws_pos = 2
        /\ ws_frames[1].t = "Binary"
        /\ IsValidText(ws_frames[2]))
          => ws_rx = <<Decode(ws_frames[2])>>

C13_Witness ==
    /\ Len(ws_frames) = 2
    /\ ws_frames[1].t = "Binary"
    /\ IsValidText(ws_frames[2])
    /\ ws_pos = 2
    /\ Len(ws_rx) = 1
    /\ log = {}
    /\ \A c \in WsConns : conns[c].st = "serving"

\* C14: a poll_next call that meets a text frame which does not parse logs
\* "Websocket JSON parse error", leaves every connection as it was (unless
\* the stream ends in the same call), does not return at that frame while
\* another item is available, and still yields the next valid text frame.
C14_MalformedTextSkipped ==
    [][ws_pos' > ws_pos =>
         LET step == (ws_pos + 1)..ws_pos'
             bad == {i \in step : IsMalformedText(ws_frames[i])}
         IN  bad # {} =>
               /\ "Websocket JSON parse error" \in log'
               /\ (\A i \in step : ws_frames[i].t # "None") => conns' = conns
               /\ ws_pos' < Len(ws_frames) => ws_pos' \notin bad
               /\ IsValidText(ws_frames[ws_pos'])
                     => ws_rx' = Append(ws_rx, Decode(ws_frames[ws_pos']))]_vars

C14_Witness ==
    /\ Len(ws_frames) >= 2
    /\ IsMalformedText(ws_frames[1])
    /\ IsValidText(ws_frames[2])
    /\ ws_pos = 2
    /\ ws_rx = <<Decode(ws_frames[2])>>
    /\ "Websocket JSON parse error" \in log
    /\ \A c \in WsConns : conns[c].st = "serving"

ListenerState == <<pc, result, task, outcome, bound, doneq, endpoints>>

C16_ReadErrorTerminates ==
    \A c \in WsConns :
        /\ (\E i \in 1..ws_pos : ws_frames[i].t = "None")
              => conns[c].st = "closed"
        /\ (\E i \in 1..ws_pos : ws_frames[i].t = "Err")
              => /\ "Websocket read error" \in log
                 /\ conns[c].st = "closed"

\* C18: the accept loop of a listening transport can take the next
\* connection whatever the connections accepted before are doing (as long
\* as the model has a connection slot left), and an accepted connection can
\* start being served whatever the other connections are doing.
C18_AcceptLoopNotBlocked ==
    /\ \A k \in ConnKinds :
          (pc = "joining" /\ task[k] = "listening" /\ FreeSlots # {})
             => ENABLED AcceptOk(k)
    /\ \A c \in 1..MaxConns :
          (pc = "joining" /\ conns[c].st = "accepted")
             => ENABLED (ConnStart(c) \/ WsHandshake(c))

C18_Witness ==
    /\ task["tcp"] = "listening"
    /\ conns[1].kind = "tcp" /\ conns[1].st = "serving"
    /\ conns[2].kind = "tcp" /\ conns[2].st = "serving"

\* C19: the step that writes the runtime info makes start_server return Ok
\* whether the write succeeds or fails, and changes no listener task and no
\* connection.
C19_RuntimeInfoWriteNotFatal ==
    [][write' # write =>
         /\ write' \in {"ok", "failed"}
         /\ result' = "Ok"
         /\ pc' = "done"
         /\ task' = task /\ outcome' = outcome /\ bound' = bound
         /\ doneq' = doneq /\ conns' = conns]_vars

C19_Witness ==
    /\ write = "failed"
    /\ runtime_info = NoFile
    /\ pc = "done"
    /\ result = "Ok"

Occurrences(q, k) == Cardinality({i \in DOMAIN q : q[i] = k})

\* C20: a transport whose enable flag is false has no listener task, is
\* never bound, never finishes and never accepts a connection; a transport
\* whose flag is true has its listener task once start_server has spawned,
\* and this task is joined at most once.
C20_OneListenerPerEnabledTransport ==
    \A k \in Kinds :
        /\ ~EnableFlag(args, k) =>
              /\ task[k] = "none"
              /\ bound[k] = 0
              /\ outcome[k] = ""
              /\ \A c \in 1..MaxConns : conns[c].kind # k
        /\ (EnableFlag(args, k) /\ pc = "joining") => task[k] # "none"
        /\ Occurrences(doneq, k) <= 1

C20_Witness ==
    /\ args.enable_tcp /\ ~args.enable_ws /\ ~args.enable_unix
    /\ task["tcp"] = "listening"
    /\ task["ws"] = "none" /\ task["unix"] = "none"
    /\ \E c \in 1..MaxConns : conns[c].kind = "tcp" /\ conns[c].st = "serving"

\* C21: with TCP enabled and an unparsable tcp_addr nothing is resolved, and
\* the error returned by start_server, printed by status_report and printed
\* by main after validate is the one that names MCP_TCP_ADDR, which differs
\* from the errors for the http, sse and ws addresses.
C21_TcpAddrErrorNamesField ==
    (args.enable_tcp /\ ~ParseAddr(args.tcp_addr).ok) =>
        /\ ~transports.resolved
        /\ pc # "joining"
        /\ pc = "done" =>
              /\ result = "Invalid MCP_TCP_ADDR"
              /\ result \notin {InvalidMsg(k) : k \in {"http", "sse", "ws"}}
        /\ main = "reported" => report = "Error: Invalid MCP_TCP_ADDR"
        /\ main = "exited" =>
              report = "Error: Invalid MCP_TCP_ADDR '" \o args.tcp_addr \o "'"

C21_Witness ==
    /\ pc = "done"
    /\ args.enable_tcp /\ ~ParseAddr(args.tcp_addr).ok
    /\ args.enable_http /\ ~ParseAddr(args.http_addr).ok
    /\ result = "Invalid MCP_TCP_ADDR"

\* C22: a resolved TransportState with the Unix transport enabled carries a
\* non-empty socket path, and a configuration with enable_unix and an empty
\* unix_path is never resolved.
C22_UnixPathNonEmpty ==
    /\ (transports.resolved /\ transports.unix_path.some)
          => transports.unix_path.val # ""
    /\ (args.enable_unix /\ args.unix_path = "") => ~transports.resolved

KindOrder == <<"stdio", "tcp", "unix", "http", "sse", "ws">>

DescriptorForms(a, k) ==
    CASE k = "stdio" -> {"stdio"}
      [] k = "tcp" -> {"tcp@" \o a.tcp_addr}
      [] k = "unix" -> {"unix@" \o a.unix_path}
      [] k = "http" -> {"streamable-http@" \o a.http_addr,
                        "http+streamable-sse@" \o a.http_addr}
      [] k = "sse" -> {"sse@" \o a.sse_addr}
      [] k = "ws" -> {"ws@" \o a.ws_addr}

\* C24: active_endpoints of a resolved state lists the enabled transports in
\* the order stdio, tcp, unix, http, sse, ws, one descriptor of the stated
\* form each and nothing for a disabled transport; status_report prints
\* exactly this list.
C24_ActiveEndpointsDescriptors ==
    transports.resolved =>
        LET eps == active_endpoints(transports)
            on == SelectSeq(KindOrder, LAMBDA k : EnableFlag(args, k))
        IN  /\ Len(eps) = Len(on)
            /\ Len(eps) = Cardinality({k \in Kinds : EnableFlag(args, k)})
            /\ \A i \in 1..Len(on) : eps[i] \in DescriptorForms(args, on[i])
            /\ main = "reported" => endpoints = eps

C24_Witness ==
    /\ main = "reported"
    /\ \A k \in Kinds : EnableFlag(args, k)
    /\ Len(endpoints) = 6
    /\ endpoints[3] = "unix@/tmp/mcp-server.sock"
    /\ endpoints[6] = "ws@127.0.0.1:0"

TextFrame(e) == [t |-> "Text", json |-> to_string(e)]

C29_ExactlyParsedTextFramesThenEnd ==
    [][ws_pos' > ws_pos =>
         /\ ws_rx' = Delivered(SubSeq(ws_frames, 1, ws_pos'))
         /\ \A i \in 1..(ws_pos' - 1) : ws_frames[i].t # "None"
         /\ \A c \in WsConns :
               conns'[c].st = "closed" <=> ws_frames[ws_pos'].t = "None"]_vars

C29_Witness ==
    /\ Len(ws_frames) = 3
    /\ ws_frames[1] = TextFrame([id |-> 1, method |-> "ping"])
    /\ ws_frames[2] = TextFrame([id |-> 2, method |-> "tools/list"])
    /\ ws_frames[3].t = "None"
    /\ ws_pos = 3
    /\ ws_rx = <<[id |-> 1, method |-> "ping"], [id |-> 2, method |-> "tools/list"]>>
    /\ \A c \in WsConns : conns[c].st = "closed"
    /\ log = {}

\* C30: a start_send call that returns Ok has appended exactly one text
\* frame holding the JSON serialization of its envelope; one whose
\* serialization failed returns an error and leaves the sink as it was; the
\* sink holds text frames only.
C30_OneTextFramePerEnvelope ==
    [][ws_send' # ws_send \/ ws_tx' # ws_tx =>
         /\ ws_send'.res = "Ok" =>
               ws_tx' = Append(ws_tx, [t |-> "Text",
                                       json |-> to_string(ws_send'.item)])
         /\ ws_send'.res = "internal_error: serialize" => ws_tx' = ws_tx
         /\ ws_send'.res # "none"
         /\ Len(ws_tx') <= Len(ws_tx) + 1
         /\ \A i \in 1..Len(ws_tx') : ws_tx'[i].t = "Text"]_vars

C30_Witness ==
    /\ Len(ws_tx) = 2
    /\ ws_tx[1] = TextFrame([id |-> 1, method |-> "ping"])
    /\ ws_tx[2] = TextFrame([method |-> "notifications/initialized"])
    /\ ws_send.res = "internal_error: serialize"

HasScheme(str) == starts_with(str, HttpScheme) \/ starts_with(str, HttpsScheme)

\* C25: the base_url of the client create_payload_client returns starts with
\* http:// or https://: a connection string without a scheme got http:// in
\* front, one with a scheme was kept, in both cases without its trailing
\* slashes.
C25_BaseUrlHasScheme ==
    client.created =>
        /\ HasScheme(client.base_url)
        /\ client.base_url =
              trim_end_matches(IF HasScheme(connection_string)
                               THEN connection_string
                               ELSE HttpScheme \o connection_string, "/")

\* C26: the step that writes the runtime info starts from a state in which
\* every task of the join set has been joined, and whenever the file has
\* been written no listener task is running.
C26_RuntimeInfoOnlyAfterAllJoined ==
    /\ []((runtime_info.written \/ write # "none") =>
            \A k \in Kinds : task[k] \in {"none", "joined"})
    /\ [][(write' # write \/ runtime_info' # runtime_info) =>
            /\ \A k \in Kinds : task[k] \in {"none", "joined"}
            /\ doneq = <<>>]_vars

C26_Witness ==
    /\ runtime_info.written
    /\ task["stdio"] = "joined"
    /\ task["sse"] = "joined"
    /\ \A k \in Kinds \ {"stdio", "sse"} : task[k] = "none"

AcceptError(k) == Prefix(k) \o " accept error"

\* C28: a failed accept of the streamable-HTTP or WebSocket listener ends
\* its task with the accept error, the listener accepts nothing afterwards,
\* and start_server fails (with this error when this task is the one
\* joined); a failed WebSocket handshake changes no task and no result.
C28_HttpWsAcceptFailureFatal ==
    /\ [](\A k \in HttpWsKinds :
            /\ AcceptError(k) \notin log
            /\ outcome[k] = AcceptError(k) =>
                  /\ task[k] \in {"done", "joined"}
                  /\ task[k] = "joined" => (pc = "done" /\ result = outcome[k])
                  /\ pc = "done" => result # "Ok")
    /\ [](/\ \A k \in Kinds : outcome[k] # "Websocket handshake error"
          /\ result # "Websocket handshake error")
    /\ [][\A k \in HttpWsKinds :
            outcome[k] = AcceptError(k) =>
              /\ ConnsOf(k)' = ConnsOf(k)
              /\ task'[k] \in {"done", "joined"}]_vars
    /\ [][\A c \in 1..MaxConns :
            (conns[c].kind = "ws" /\ conns[c].st = "accepted"
                /\ conns'[c].st = "closed") =>
              /\ task' = task /\ outcome' = outcome
              /\ pc' = pc /\ result' = result]_vars

C28_Witness ==
    /\ pc = "done"
    /\ result = "Streamable HTTP accept error"
    /\ task["http"] = "joined"
    /\ task["ws"] = "aborted"
    /\ "Websocket handshake error" \in log

-----------------------------------------------------------------------------
(* C31 *)

\* the ids of the requests connection c has received, in the order received
Received(c) == [i \in 1..conns[c].sent |-> i]

Ids(q) == [i \in 1..Len(q) |-> q[i].id]

C31_WitnessOtherOrder ==
    /\ conns[1].kind = "tcp" /\ conns[2].kind = "tcp"
    /\ Ids(conns[1].outbox) = <<1, 2>>
    /\ conns[2].inbox # <<>>
    /\ conns[2].outbox = <<>>

-----------------------------------------------------------------------------
(* C32 *)

StdioEnded == task["stdio"] \in {"done", "joined", "aborted"}

\* C32: the stdio task serves stdin/stdout at most once: it has served one
\* stream exactly when it has returned, it is never an accepted connection of
\* a listener, and once it has returned it cannot serve again, although the
\* other transports go on.
C32_StdioSingleConnection ==
    /\ stdio_streams <= 1
    /\ (stdio_streams = 1) <=> (task["stdio"] \in {"done", "joined"})
    /\ \A c \in 1..MaxConns : conns[c].kind # "stdio"
    /\ StdioEnded => ~ENABLED StdioServe

C32_Witness ==
    /\ pc = "joining"
    /\ stdio_streams = 1
    /\ task["stdio"] = "joined"
    /\ \E k \in AcceptKinds : task[k] = "listening"

-----------------------------------------------------------------------------
(* C33 *)

\* C33: a configuration validate accepts is resolved by from_args without an
\* error and into a state with a transport enabled, so start_server cannot
\* take its configuration-error return for it and, once main's Start branch
\* has called it, it has not returned a configuration error.
C33_ValidatedConfigResolves ==
    validate(args).ok =>
        /\ from_args(args).ok
        /\ any_enabled(from_args(args).state)
        /\ ~ENABLED StartServerConfigError
        /\ result = "none"
        /\ main = "awaiting" => pc \in {"start", "joining"}

C33_Witness ==
    /\ main = "awaiting"
    /\ pc = "joining"
    /\ validate(args).ok
    /\ args.enable_ws /\ args.enable_unix /\ ~args.enable_stdio
    /\ transports.resolved

-----------------------------------------------------------------------------
(* C34 *)

ListenerTaskRunning == \E k \in Kinds : task[k] \in {"spawned", "listening", "done"}

C34_WitnessError ==
    /\ main = "exited"
    /\ pc = "done"
    /\ result = "TCP bind error"
    /\ pid_file = NoFile /\ settings_file = NoFile

-----------------------------------------------------------------------------
(* C35 *)

\* the snapshots handed to a save so far, and the one an earlier save left
Saved ==
    {saver[p].data : p \in {q \in Savers : saver[q].pc # "idle"}}
        \union {d \in Snapshots : inode # <<>> /\ Head(inode) = to_string_pretty(d)}

\* C35 (as claimed): at every moment, concurrent saves included, the data
\* file is absent or holds the complete serialization of one snapshot that
\* was handed to a save.
C35_DataFileNeverPartial ==
    \/ dir[StoragePath] = 0
    \/ inode[dir[StoragePath]] \in {to_string_pretty(d) : d \in Saved}

-----------------------------------------------------------------------------
(* C36, C37 *)

TodoOps == {"add_todo", "remove_todo", "update_todo_status", "get_todos"}
StorageErrors == {"PlanNotFound", "TodoNotFound"}

TodoIdsOf(todos) == {todos[i].id : i \in 1..Len(todos)}

\* a step in which only time passes: no Storage call is made
OnlyTime == call' = call /\ data' = data /\ next_ulid' = next_ulid

\* C36: a todo operation on a goal id without a plan returns PlanNotFound,
\* remove_todo and update_todo_status with a todo id the plan does not hold
\* return TodoNotFound, and a call that returns either error leaves the
\* StorageData (goals, plans, todos, updated_at) as it was.
C36_ErrorsWithoutSideEffects ==
    [][~OnlyTime =>
        /\ call'.res \in StorageErrors =>
              data' = data /\ next_ulid' = next_ulid
        /\ call'.op \in TodoOps =>
              (call'.res = "PlanNotFound"
                  <=> call'.goal_id \notin DOMAIN data.plans)
        /\ (call'.op \in {"remove_todo", "update_todo_status"}
              /\ call'.goal_id \in DOMAIN data.plans) =>
              (call'.res = "TodoNotFound"
                  <=> call'.todo_id
                        \notin TodoIdsOf(data.plans[call'.goal_id].todos))]_vars

C36_Witness ==
    /\ call.op = "remove_todo"
    /\ call.res = "TodoNotFound"
    /\ data.plans[call.goal_id].todos # <<>>
    /\ data.plans[call.goal_id].updated_at < clock

\* the todos of goal_id before and after a step, for a plan that exists
\* before and after
Before(g) == data.plans[g].todos
After(g) == data'.plans[g].todos

\* C37: on an existing plan add_todo appends one todo with a new id and
\* is_complete = false whatever the caller supplied, remove_todo takes out
\* the todo with that id and keeps the order of the others,
\* update_todo_status changes nothing but the flag and the stamp of its
\* todo, a failed call changes nothing, get_todos returns the plan's todos,
\* and the todos of a plan are always in the order they were added, with
\* distinct ids.
C37_TodosAddedNotRemovedInOrder ==
    /\ [](\A g \in DOMAIN data.plans :
            \A i, j \in 1..Len(data.plans[g].todos) :
                i < j => data.plans[g].todos[i].id < data.plans[g].todos[j].id)
    /\ []((call.op = "get_todos" /\ call.res = "Ok") =>
            call.todos = data.plans[call.goal_id].todos)
    /\ [][(~OnlyTime /\ call'.op \in TodoOps /\ call'.res = "Ok") =>
            LET g == call'.goal_id
            IN  CASE call'.op = "add_todo" ->
                       /\ After(g) = Append(Before(g), call'.todo)
                       /\ call'.todo.is_complete = FALSE
                       /\ call'.todo.id \notin 0..next_ulid
                       /\ call'.todo.title = call'.arg.title
                  [] call'.op = "remove_todo" ->
                       After(g) = SelectSeq(Before(g),
                                            LAMBDA t : t.id # call'.todo_id)
                  [] call'.op = "update_todo_status" ->
                       /\ Len(After(g)) = Len(Before(g))
                       /\ \A i \in 1..Len(Before(g)) :
                             /\ After(g)[i].id = Before(g)[i].id
                             /\ After(g)[i].title = Before(g)[i].title
                             /\ After(g)[i].created_at = Before(g)[i].created_at
                             /\ After(g)[i].id # call'.todo_id
                                   => After(g)[i] = Before(g)[i]
                  [] call'.op = "get_todos" -> After(g) = Before(g)]_vars
    /\ [][\A g \in DOMAIN data.plans \intersect DOMAIN data'.plans :
            \A i \in 1..Len(Before(g)), j \in 1..Len(After(g)) :
                (Before(g)[i].id = After(g)[j].id
                   /\ Before(g)[i].is_complete # After(g)[j].is_complete)
                => (call'.op = "update_todo_status" /\ call'.res = "Ok"
                      /\ call'.todo_id = Before(g)[i].id)]_vars

\* three todos were added, the first was removed, the last was completed
C37_Witness ==
    /\ call.op = "get_todos" /\ call.res = "Ok"
    /\ Len(call.todos) = 2
    /\ call.todos[1].id = 2 /\ ~call.todos[1].is_complete
    /\ call.todos[2].id = 3 /\ call.todos[2].is_complete

-----------------------------------------------------------------------------
(* C38 *)

\* C38 (as claimed): after overlay_args every field whose override differs
\* from the built-in default holds the override, and every other field holds
\* what load_settings gave it.
C38_OverlayCopiesIffNotDefault ==
    effective # NoSettings =>
        \A f \in Fields :
            effective[f] = IF overrides[f] # default_settings[f]
                           THEN overrides[f] ELSE loaded[f]

\* what holds of the code: the fourteen fields of settings.json follow the
\* rule, runtime_info_file and foreground are never copied
C38_OverlaySettingsFieldsOnly ==
    effective # NoSettings =>
        /\ \A f \in SettingsFields :
              effective[f] = IF overrides[f] # default_settings[f]
                             THEN overrides[f] ELSE loaded[f]
        /\ \A f \in Fields \ SettingsFields : effective[f] = loaded[f]

\* settings.json enables tcp, the command line passes the default
\* --enable-tcp false and another runtime info file: tcp stays enabled and
\* the runtime info file stays the default one
C38_WitnessIgnoredOption ==
    /\ effective # NoSettings
    /\ loaded.enable_tcp /\ ~overrides.enable_tcp /\ effective.enable_tcp
    /\ overrides.runtime_info_file # default_settings.runtime_info_file
    /\ effective.runtime_info_file = default_settings.runtime_info_file

====
